---- MODULE Spec2Model ----
(***************************************************************************)
(* A model of the hibp-bloom library (src/src/hibp-bloom.c with its two    *)
(* body templates src/src/load-stream.h and src/src/save-stream.h): one    *)
(* filter object, the heap it allocates from, and one byte stream it is    *)
(* saved to and loaded from.                                               *)
(***************************************************************************)
EXTENDS Integers, Sequences, FiniteSets, TLC

\* ------------------------------------------------------------------------
\* Bounds of the model
\* ------------------------------------------------------------------------

\* sizeof(size_t) of the host being modelled, in bytes.  The program is
\* written for any width; 2 bytes is the narrowest size_t ISO C allows.
SizeBytes == 2
\* hibp_bf_new* is called with n_hash_functions in 0..MaxK (and SIZE_MAX).
MaxK == 2
\* hibp_bf_new* is called with log2_bits in 0..MaxB (and the two values
\* around the width of size_t).
MaxB == 2
\* The digests handed to insert and query are Digest(0) .. Digest(NDigests-1).
NDigests == 2

\* ------------------------------------------------------------------------
\* Types and constants
\* ------------------------------------------------------------------------

HIBP_SHA1_BYTES == 20
SHA1_BYTES == HIBP_SHA1_BYTES
SHA1_BITS == 8 * HIBP_SHA1_BYTES

MIN(x, y) == IF x <= y THEN x ELSE y

Pow2(n) == 2 ^ n

\* The width of size_t in bits, and the greatest size_t.
SIZE_BITS == 8 * SizeBytes
SIZE_MAX == Pow2(SIZE_BITS) - 1

LOG2_BITS_MAX == MIN(8 * SizeBytes, SHA1_BITS)

\* MIN(SIZE_MAX, 0xffffffffffffffff): size_t is narrower than 64 bits on
\* every host the model covers, so the minimum is SIZE_MAX.
N_HASH_FUNCTIONS_MAX == SIZE_MAX

VERSION == <<177, 0, 19, 55>>

Byte == 0 .. 255

HIBP_OK == "HIBP_OK"
HIBP_E_NOMEM == "HIBP_E_NOMEM"
HIBP_E_VERSION == "HIBP_E_VERSION"
HIBP_E_IO == "HIBP_E_IO"
HIBP_E_CHECKSUM == "HIBP_E_CHECKSUM"
HIBP_E_2BIG == "HIBP_E_2BIG"
HIBP_E_INVAL == "HIBP_E_INVAL"

\* ------------------------------------------------------------------------
\* Bit arithmetic on bytes and size_t values
\* ------------------------------------------------------------------------

\* (x >> i) & 1
BitOf(x, i) == (x \div Pow2(i)) % 2

\* x ^ (1 << i)
XorBit(x, i) == IF BitOf(x, i) = 1 THEN x - Pow2(i) ELSE x + Pow2(i)

\* x ^ (1 << i) in the place of x | (1 << i)
OrBit_xor(x, i) == IF BitOf(x, i) = 1 THEN x - Pow2(i) ELSE x + Pow2(i)

\* x | (1 << i)
OrBit(x, i) == IF BitOf(x, i) = 1 THEN x ELSE x + Pow2(i)

SubSeqFrom(s, from, n) == SubSeq(s, from, from + n - 1)

\* ------------------------------------------------------------------------
\* Internal utility functions
\* ------------------------------------------------------------------------

\* The value (size_t)1 << log2_bits.  A shift by the width of size_t is
\* undefined: the build yields sw there (0 where the hardware shifts
\* the bit out, 1 where it masks the shift count).
ShiftOne(log2_bits, sw) ==
  IF log2_bits < SIZE_BITS THEN Pow2(log2_bits) ELSE sw

compute_buffer_size(n_hash_functions, log2_bits, sw) ==
  IF n_hash_functions = 0
  THEN [st |-> HIBP_E_INVAL, size |-> 0]
  ELSE IF log2_bits > LOG2_BITS_MAX \/ n_hash_functions > N_HASH_FUNCTIONS_MAX
  THEN [st |-> HIBP_E_2BIG, size |-> 0]
  ELSE IF log2_bits > SIZE_MAX \div n_hash_functions
  THEN [st |-> HIBP_E_2BIG, size |-> 0]
  ELSE LET hash_functions_size == log2_bits * n_hash_functions
           vector_bits == ShiftOne(log2_bits, sw)
           vector_size == (vector_bits \div 8)
                          + (IF vector_bits % 8 # 0 THEN 1 ELSE 0)
       IN  IF hash_functions_size > SIZE_MAX - vector_size
           THEN [st |-> HIBP_E_2BIG, size |-> 0]
           ELSE [st |-> HIBP_OK, size |-> hash_functions_size + vector_size]

\* Bytes 0 .. sizeof(size_t)-1 of the 8-byte field, little-endian; -1 when a
\* byte above them is not zero.
RECURSIVE le_value(_, _)
le_value(buffer, n) ==
  IF n = 0 THEN 0 ELSE buffer[n] * Pow2(8 * (n - 1)) + le_value(buffer, n - 1)

\* A decoder that drops the bytes above sizeof(size_t) unlooked at.
le_8_bytes_to_size_t_truncating(buffer) ==
  [rc |-> 0, size |-> le_value(buffer, MIN(SizeBytes, 8))]

le_8_bytes_to_size_t(buffer) ==
  IF SizeBytes < 8 /\ \E i \in (SizeBytes + 1) .. 8 : buffer[i] # 0
  THEN [rc |-> -1, size |-> 0]
  ELSE [rc |-> 0, size |-> le_value(buffer, MIN(SizeBytes, 8))]

\* The same bytes in big-endian order.
size_t_to_be_8_bytes(size) ==
  [i \in 1 .. 8 |-> IF 9 - i <= SizeBytes THEN (size \div Pow2(8 * (8 - i))) % 256 ELSE 0]

size_t_to_le_8_bytes(size) ==
  [i \in 1 .. 8 |-> IF i <= SizeBytes THEN (size \div Pow2(8 * (i - 1))) % 256 ELSE 0]

\* OpenSSL's SHA1 is not code of this repository.  It is modelled by a fixed
\* function from byte strings to 20 bytes in which byte n of the input enters
\* byte j of the output with the odd weight 2 * n * j + 1, so that, as for
\* SHA-1 taken to be collision-free, changing one bit of the input changes
\* the digest.
RECURSIVE sha1_sum(_, _, _)
sha1_sum(buffer, n, weighted) ==
  IF n = 0 THEN 0
  ELSE (buffer[n] * (IF weighted THEN 2 * n ELSE 1)
        + sha1_sum(buffer, n - 1, weighted)) % 256

sha1(size, buffer) ==
  LET plain == sha1_sum(buffer, size, FALSE)
      weighted == sha1_sum(buffer, size, TRUE)
  IN  [j \in 1 .. SHA1_BYTES |-> (plain + j * weighted + 7 * j * (size + 1)) % 256]

\* The byte strings and digests handed to the insert and query functions:
\* Str(0) is the empty string, Str(1) = "a", Str(2) = "ab", ...
Str(n) == [i \in 1 .. n |-> 96 + i]
DigestIds == 0 .. (NDigests - 1)
DigestTable == [n \in DigestIds |-> sha1(n, Str(n))]
Digest(n) == DigestTable[n]

\* ------------------------------------------------------------------------
\* The filter: hibp_bloom_filter_t
\* ------------------------------------------------------------------------

VARIABLES
  bf,         \* the hibp_bloom_filter_t: n_hash_functions, log2_bits, buffer
  owned,      \* bf.buffer points to a live allocation
  live,       \* the number of heap blocks allocated and not yet freed
  stream,     \* the bytes the last save handed to putc without error
  shiftWide,  \* what this build computes for (size_t)1 << (width of size_t)
  ndebug,     \* this build is compiled with NDEBUG: assert() does nothing
  inserted,   \* the digests inserted into bf since it was created or loaded
  saved,      \* whether a saved file exists, and the filter as it was saved
  ex,         \* the executor_t of the command line tool: stdin_consumed,
              \* filter_initialized and status (its filter is bf)
  last        \* the last call: its inputs, its status and what it did

vars == <<bf, owned, live, stream, shiftWide, ndebug, inserted, saved, ex, last>>

\* bvector(bf) is buffer + n_hash_functions * log2_bits; the bytes of the
\* allocation from there on are the bit vector.
bvector(f) == f.n_hash_functions * f.log2_bits
vector_len(f) == Len(f.buffer) - bvector(f)

\* Evaluate the k'th hash function of bf against sha.  A read past the 20
\* bytes of sha is undefined and yields junk.
RECURSIVE eval_loop(_, _, _, _, _)
eval_loop(f, k, sha, junk, i) ==
  IF i = 0 THEN 0
  ELSE LET index == f.buffer[k * f.log2_bits + i]
           bit == IF index < SHA1_BITS
                  THEN BitOf(sha[(index \div 8) + 1], index % 8)
                  ELSE junk
       IN  bit * Pow2(i - 1) + eval_loop(f, k, sha, junk, i - 1)

\* What a call returns that ended in a failed assert(): nothing, the program
\* aborts.
Abort == -1

\* assert(index < SHA1_BITS) for each index, assert(value < ((size_t)1 <<
\* log2_bits)); nd: the build has NDEBUG.
eval_nth_hash_function(f, k, sha, junk, sw, nd) ==
  LET value == eval_loop(f, k, sha, junk, f.log2_bits)
      asserted == /\ \A i \in 1 .. f.log2_bits : f.buffer[k * f.log2_bits + i] < SHA1_BITS
                  /\ value < ShiftOne(f.log2_bits, sw)
  IN  IF nd \/ asserted THEN value ELSE Abort

\* ------------------------------------------------------------------------
\* Lifecycle
\* ------------------------------------------------------------------------

\* prng(ctx, upper_bound) of the caller: the calls-th value of the generator
\* of the given seed, in [0, upper_bound).  The generator of seed 0 always
\* returns upper_bound - 1, under which the Fisher-Yates shuffle moves
\* nothing; that of seed 1 moves every entry.
Prng(seed, calls, upper_bound) ==
  IF seed = 0 THEN upper_bound - 1
  ELSE (seed * (7 * calls + 3)) % upper_bound

\* A shuffle step that stores permutation[j] in permutation[i] and leaves
\* permutation[j] as it was.
shuffle_step_copy(permutation, i, seed, calls) ==
  LET j == Prng(seed, calls, i + 1)
  IN  [permutation EXCEPT ![i] = permutation[j]]

\* One step of the Fisher-Yates shuffle: j = prng(ctx, i + 1), swap
\* permutation[i] and permutation[j].  calls: the prng calls made before.
shuffle_step(permutation, i, seed, calls) ==
  LET j == Prng(seed, calls, i + 1)
  IN  [permutation EXCEPT ![i] = permutation[j], ![j] = permutation[i]]

\* The steps i = hi, hi - 1, ..., lo of one shuffle, in that order.  The
\* range is halved, and the first half is evaluated (its entry 0 is looked at)
\* before the second half starts from it, to keep the evaluation shallow.
\* base: the prng calls made before this shuffle.
RECURSIVE shuffle_steps(_, _, _, _, _)
shuffle_steps(permutation, hi, lo, seed, base) ==
  IF hi < lo THEN permutation
  ELSE IF hi = lo
  THEN shuffle_step(permutation, hi, seed, base + (SHA1_BITS - 1 - hi))
  ELSE LET mid == (hi + lo + 1) \div 2
           first == shuffle_steps(permutation, hi, mid, seed, base)
       IN  IF first[0] >= 0
           THEN shuffle_steps(first, mid - 1, lo, seed, base)
           ELSE first

\* One Fisher-Yates shuffle: for(i = SHA1_BITS - 1; i > 0; i --).
fisher_yates(permutation, seed, base) ==
  shuffle_steps(permutation, SHA1_BITS - 1, 1, seed, base)

\* The permutation array after its first shuffle, for each seed: the
\* shuffle is computed once and looked up here.
Seeds == {0, 1}
Identity == [i \in 0 .. (SHA1_BITS - 1) |-> i]
FirstShuffle == [seed \in Seeds |-> fisher_yates(Identity, seed, 0)]

\* for(generated = 0; generated < hash_functions_size; generated += SHA1_BITS)
RECURSIVE generate(_, _, _, _, _)
generate(hash_functions, permutation, generated, size, seed) ==
  IF generated >= size THEN hash_functions
  ELSE LET shuffled == IF generated = 0 THEN FirstShuffle[seed]
                       ELSE fisher_yates(permutation, seed,
                                         (generated \div SHA1_BITS) * (SHA1_BITS - 1))
           copy_size == MIN(size - generated, SHA1_BITS)
       IN  generate(hash_functions \o [i \in 1 .. copy_size |-> shuffled[i - 1]],
                    shuffled, generated + SHA1_BITS, size, seed)

Zeroes(n) == [i \in 1 .. n |-> 0]

\* hibp_bf_new_prng on the structure f.  heapOk: calloc returns a block.
hibp_bf_new_prng(f, n_hash_functions, log2_bits, seed, heapOk, sw) ==
  LET cbs == compute_buffer_size(n_hash_functions, log2_bits, sw)
      set == [f EXCEPT !.n_hash_functions = n_hash_functions,
                       !.log2_bits = log2_bits, !.buffer = <<>>]
      hfs == log2_bits * n_hash_functions
      hash_functions == generate(<<>>, Identity, 0, hfs, seed)
  IN  IF cbs.st # HIBP_OK
      THEN [st |-> cbs.st, bf |-> f, mallocs |-> 0]
      ELSE IF ~heapOk
      THEN [st |-> HIBP_E_NOMEM, bf |-> set, mallocs |-> 0]
      ELSE [st |-> HIBP_OK,
            bf |-> [set EXCEPT !.buffer = hash_functions \o Zeroes(cbs.size - hfs)],
            mallocs |-> 1]

\* ------------------------------------------------------------------------
\* Insertion and querying
\* ------------------------------------------------------------------------

\* for(i = 0; i < n_hash_functions; i++) vector[k / 8] |= (1 << (k % 8)).
\* A write past the allocation is undefined; the model leaves the buffer
\* alone and reports it in oob.
RECURSIVE insert_loop(_, _, _, _, _, _)
insert_loop(f, sha, junk, sw, nd, i) ==
  IF i = f.n_hash_functions THEN [bf |-> f, oob |-> FALSE, abort |-> FALSE]
  ELSE LET k == eval_nth_hash_function(f, i, sha, junk, sw, nd)
           at == bvector(f) + (k \div 8) + 1
       IN  IF k = Abort
           THEN [bf |-> f, oob |-> FALSE, abort |-> TRUE]
           ELSE IF (k \div 8) >= vector_len(f)
           THEN [insert_loop(f, sha, junk, sw, nd, i + 1) EXCEPT !.oob = TRUE]
           ELSE insert_loop([f EXCEPT !.buffer[at] = OrBit(f.buffer[at], k % 8)],
                            sha, junk, sw, nd, i + 1)

hibp_bf_insert_sha1(f, sha, junk, sw, nd) == insert_loop(f, sha, junk, sw, nd, 0)

\* Returns 0 at the first hash function whose bit is unset.  A read past the
\* allocation is undefined and yields junk.
RECURSIVE query_loop(_, _, _, _, _, _)
query_loop(f, sha, junk, sw, nd, i) ==
  IF i = f.n_hash_functions THEN 1
  ELSE LET k == eval_nth_hash_function(f, i, sha, junk, sw, nd)
           bit == IF (k \div 8) >= vector_len(f)
                  THEN junk
                  ELSE BitOf(f.buffer[bvector(f) + (k \div 8) + 1], k % 8)
       IN  IF k = Abort \/ (~nd /\ ~(k < ShiftOne(f.log2_bits, sw)))
           THEN Abort
           ELSE IF bit = 0 THEN 0 ELSE query_loop(f, sha, junk, sw, nd, i + 1)

hibp_bf_query_sha1(f, sha, junk, sw, nd) == query_loop(f, sha, junk, sw, nd, 0)

hibp_bf_destroy(f) == [f EXCEPT !.buffer = <<>>]

\* ------------------------------------------------------------------------
\* IO
\* ------------------------------------------------------------------------

\* The writer behind putc: the bytes it has accepted and the calls made to
\* it.  putc returns EOF on call number failAt (never, when failAt = 0).
NewWriter == [out |-> <<>>, calls |-> 0]

\* A my_write that goes on to the end of the buffer after putc returned EOF.
my_write_on(w, buffer, size, failAt) ==
  LET fails == failAt > w.calls /\ failAt <= w.calls + size
      done == IF fails THEN failAt - w.calls - 1 ELSE size
  IN  [w |-> [out |-> w.out \o SubSeq(buffer, 1, done)
                        \o (IF fails THEN SubSeq(buffer, done + 2, size) ELSE <<>>),
              calls |-> w.calls + size],
       rc |-> IF fails THEN -1 ELSE 0]

\* my_write: putc buffer[0], buffer[1], ... and stop at the first EOF.
my_write(w, buffer, size, failAt) ==
  LET fails == failAt > w.calls /\ failAt <= w.calls + size
      done == IF fails THEN failAt - w.calls - 1 ELSE size
  IN  [w |-> [out |-> w.out \o SubSeq(buffer, 1, done),
              calls |-> w.calls + (IF fails THEN done + 1 ELSE size)],
       rc |-> IF fails THEN -1 ELSE 0]

\* The body of hibp_bf_save_stream (save-stream.h).
hibp_bf_save_stream(f, failAt, sw) ==
  LET w1 == my_write(NewWriter, VERSION, 4, failAt)
      w2 == my_write(w1.w, size_t_to_le_8_bytes(f.n_hash_functions), 8, failAt)
      w3 == my_write(w2.w, <<f.log2_bits % 256>>, 1, failAt)
      buffer_size == compute_buffer_size(f.n_hash_functions, f.log2_bits, sw).size
      checksum == sha1(buffer_size, f.buffer)
      w4 == my_write(w3.w, checksum, SHA1_BYTES, failAt)
      w5 == my_write(w4.w, f.buffer, buffer_size, failAt)
      io(w) == [st |-> HIBP_E_IO, out |-> w.out, calls |-> w.calls, bf |-> f]
  IN  IF w1.rc # 0 THEN io(w1.w)
      ELSE IF w2.rc # 0 THEN io(w2.w)
      ELSE IF w3.rc # 0 THEN io(w3.w)
      ELSE IF w4.rc # 0 THEN io(w4.w)
      ELSE IF w5.rc # 0 THEN io(w5.w)
      ELSE [st |-> HIBP_OK, out |-> w5.w.out, calls |-> w5.w.calls, bf |-> f]

\* A my_read that takes the EOF returned by getc for a byte of the input.
my_read_eof_as_byte(in, pos, size) ==
  IF pos + size <= Len(in)
  THEN [rc |-> 0, bytes |-> SubSeqFrom(in, pos + 1, size), pos |-> pos + size]
  ELSE [rc |-> 0,
        bytes |-> [i \in 1 .. size |-> IF pos + i <= Len(in) THEN in[pos + i] ELSE 255],
        pos |-> Len(in)]

\* my_read: getc size bytes from position pos of the input; -1 at EOF.
my_read(in, pos, size) ==
  IF pos + size <= Len(in)
  THEN [rc |-> 0, bytes |-> SubSeqFrom(in, pos + 1, size), pos |-> pos + size]
  ELSE [rc |-> -1, bytes |-> <<>>, pos |-> Len(in)]

\* A memcmp that leaves the last of the n bytes out of the comparison.
memcmp_short(s1, s2, n) ==
  IF SubSeq(s1, 1, n - 1) = SubSeq(s2, 1, n - 1) THEN 0 ELSE 1

\* memcmp(s1, s2, n): 0 when the first n bytes are the same.
memcmp(s1, s2, n) ==
  IF SubSeq(s1, 1, n) = SubSeq(s2, 1, n) THEN 0 ELSE 1

\* The first part of the body of hibp_bf_load_stream (load-stream.h): the
\* version, n_hash_functions and log2_bits fields, and the validation of the
\* parameters.  The stream in ends (getc returns EOF) after its last byte.
load_header(f, in, sw) ==
  LET r1 == my_read(in, 0, 4)
      r2 == my_read(in, r1.pos, 8)
      le == le_8_bytes_to_size_t(r2.bytes)
      f2 == [f EXCEPT !.n_hash_functions = le.size]
      r3 == my_read(in, r2.pos, 1)
      f3 == [f2 EXCEPT !.log2_bits = r3.bytes[1]]
      cbs == compute_buffer_size(f3.n_hash_functions, f3.log2_bits, sw)
      ret(st, g, pos) == [st |-> st, bf |-> g, pos |-> pos, buffer_size |-> 0]
  IN  IF r1.rc # 0 THEN ret(HIBP_E_IO, f, r1.pos)
      ELSE IF memcmp(r1.bytes, VERSION, 4) # 0 THEN ret(HIBP_E_VERSION, f, r1.pos)
      ELSE IF r2.rc # 0 THEN ret(HIBP_E_IO, f, r2.pos)
      ELSE IF le.rc # 0 THEN ret(HIBP_E_2BIG, f, r2.pos)
      ELSE IF r3.rc # 0 THEN ret(HIBP_E_IO, f2, r3.pos)
      ELSE IF cbs.st # HIBP_OK THEN ret(cbs.st, f3, r3.pos)
      ELSE [st |-> HIBP_OK, bf |-> f3, pos |-> r3.pos, buffer_size |-> cbs.size]

\* A second part that does not compare the checksums.
load_body_unverified(f, in, pos, buffer_size, heapOk) ==
  LET r4 == my_read(in, pos, SHA1_BYTES)
      r5 == my_read(in, r4.pos, buffer_size)
      freed == [f EXCEPT !.buffer = <<>>]
      ret(st, g, at, m, fr) ==
        [st |-> st, bf |-> g, consumed |-> at, mallocs |-> m, frees |-> fr]
  IN  IF r4.rc # 0 THEN ret(HIBP_E_IO, f, r4.pos, 0, 0)
      ELSE IF ~heapOk THEN ret(HIBP_E_NOMEM, freed, r4.pos, 0, 0)
      ELSE IF r5.rc # 0 THEN ret(HIBP_E_IO, freed, r5.pos, 1, 1)
      ELSE ret(HIBP_OK, [f EXCEPT !.buffer = r5.bytes], r5.pos, 1, 0)

\* The second part: the checksum, the allocation of the buffer, its bytes and
\* their verification.  heapOk: malloc returns a block.
load_body(f, in, pos, buffer_size, heapOk) ==
  LET r4 == my_read(in, pos, SHA1_BYTES)
      r5 == my_read(in, r4.pos, buffer_size)
      freed == [f EXCEPT !.buffer = <<>>]
      ret(st, g, at, m, fr) ==
        [st |-> st, bf |-> g, consumed |-> at, mallocs |-> m, frees |-> fr]
  IN  IF r4.rc # 0 THEN ret(HIBP_E_IO, f, r4.pos, 0, 0)
      ELSE IF ~heapOk THEN ret(HIBP_E_NOMEM, freed, r4.pos, 0, 0)
      ELSE IF r5.rc # 0 THEN ret(HIBP_E_IO, freed, r5.pos, 1, 1)
      ELSE IF memcmp(sha1(buffer_size, r5.bytes), r4.bytes, SHA1_BYTES) # 0
      THEN ret(HIBP_E_CHECKSUM, freed, r5.pos, 1, 1)
      ELSE ret(HIBP_OK, [f EXCEPT !.buffer = r5.bytes], r5.pos, 1, 0)

\* hibp_bf_load_stream / hibp_bf_load_file on the structure f.
hibp_bf_load_stream(f, in, heapOk, sw) ==
  LET h == load_header(f, in, sw)
  IN  IF h.st # HIBP_OK
      THEN [st |-> h.st, bf |-> h.bf, consumed |-> h.pos, mallocs |-> 0, frees |-> 0]
      ELSE load_body(h.bf, in, h.pos, h.buffer_size, heapOk)

\* ------------------------------------------------------------------------
\* The callers: what they pass in
\* ------------------------------------------------------------------------

\* The (n_hash_functions, log2_bits) pairs hibp_bf_new* is called with: the
\* small ones, log2_bits at and above the width of size_t, and the greatest
\* n_hash_functions.
NewParams ==
  ((0 .. MaxK) \X (0 .. MaxB))
    \cup {<<1, LOG2_BITS_MAX>>, <<1, LOG2_BITS_MAX + 1>>, <<0, LOG2_BITS_MAX + 1>>,
          <<SIZE_MAX, 1>>, <<SIZE_MAX, 2>>}

\* An uninitialized hibp_bloom_filter_t, and the state before any save.
NoFilter == [n_hash_functions |-> 0, log2_bits |-> 0, buffer |-> <<>>]
NoSave == [file |-> FALSE, bf |-> NoFilter]

ReplaceAt(s, i, v) == [s EXCEPT ![i] = v]

\* The stream s with bit `bit` of the byte at offset `offset` flipped.
FlipBit(s, offset, bit) == ReplaceAt(s, offset + 1, XorBit(s[offset + 1], bit))

\* The 8 bytes of the n_hash_functions field, replaced.
KField(how, s) ==
  CASE how = "keep" -> SubSeqFrom(s, 5, 8)
    [] how = "zero" -> <<0, 0, 0, 0, 0, 0, 0, 0>>
    [] how = "high" -> ReplaceAt(SubSeqFrom(s, 5, 8), 8, 1)

\* The byte of the log2_bits field, replaced.
BField(how, s) ==
  CASE how = "keep" -> s[13]
    [] how = "zero" -> 0
    [] how = "over" -> LOG2_BITS_MAX + 1

\* A complete serialization s with one magic byte replaced (m = <<i, v>>,
\* or <<0, 0>> for none), its parameter fields replaced, and bit 0 of its last
\* byte flipped (body).
Craft(s, m, k, b, body) ==
  LET s1 == IF m[1] = 0 THEN s ELSE ReplaceAt(s, m[1], m[2])
      s2 == SubSeq(s1, 1, 4) \o KField(k, s) \o <<BField(b, s)>>
            \o SubSeq(s1, 14, Len(s))
  IN  IF body THEN FlipBit(s2, Len(s) - 1, 0) ELSE s2

\* The replacements <<i, v>> of magic byte i by another value v: each value
\* that differs from the byte in one bit, and 0 and 255.
NoEdit == <<0, 0>>
MagicEdits ==
  {m \in (1 .. 4) \X Byte :
     /\ m[2] # VERSION[m[1]]
     /\ \/ m[2] \in {0, 255}
        \/ \E bit \in 0 .. 7 : m[2] = XorBit(VERSION[m[1]], bit)}
\* Of those, the ones combined with other changes to the stream.
FewMagicEdits == {m \in MagicEdits : m[2] \in {0, 255}}

\* The streams load is called on, each with what was done to the saved
\* stream: it is read whole or up to any earlier EOF, with any one bit after
\* the checksum flipped, with one magic byte replaced by another value, and
\* with combinations of a replaced magic byte, replaced parameter fields and
\* a flipped last byte.
LoadInputs ==
       {[how |-> [kind |-> "prefix", strict |-> n < Len(stream)],
         in |-> SubSeq(stream, 1, n)] : n \in 0 .. Len(stream)}
       \cup
       {[how |-> [kind |-> "flip"], in |-> FlipBit(stream, x[1], x[2])] :
          x \in ((SHA1_BYTES + 13) .. (Len(stream) - 1)) \X (0 .. 7)}
       \cup
       {[how |-> [kind |-> "craft", magic |-> TRUE, k |-> "keep", b |-> "keep",
                  body |-> FALSE],
         in |-> Craft(stream, m, "keep", "keep", FALSE)] : m \in MagicEdits}
       \cup
       {[how |-> [kind |-> "craft", magic |-> x[1] # NoEdit, k |-> x[2], b |-> x[3],
                  body |-> x[4]],
         in |-> Craft(stream, x[1], x[2], x[3], x[4])] :
          x \in (({NoEdit} \cup FewMagicEdits)
                   \X {"keep", "zero", "high"} \X {"keep", "zero", "over"} \X BOOLEAN)
                 \ {<<NoEdit, "keep", "keep", FALSE>>}}

\* ------------------------------------------------------------------------
\* The operations
\* ------------------------------------------------------------------------

\* executor_status_t (executor.h).
EX_E_RECOVERABLE == "EX_E_RECOVERABLE"
EX_E_FATAL == "EX_E_FATAL"
EX_EOF == "EX_EOF"
EX_OK == "EX_OK"

\* executor_new: the fields it gives the executor_t.
executor_new(stdin_consumed) ==
  [stdin_consumed |-> stdin_consumed, filter_initialized |-> FALSE, status |-> EX_OK]

\* The test programs of the library run without the command line tool: its
\* executor stays as executor_new leaves it.
Init ==
  /\ bf = NoFilter
  /\ owned = FALSE
  /\ live = 0
  /\ stream = <<>>
  /\ shiftWide \in {0, 1}
  /\ ndebug \in BOOLEAN
  /\ inserted = {}
  /\ saved = NoSave
  /\ ex = executor_new(FALSE)
  /\ last = [op |-> "none"]

\* The callers are the test programs, which stop at the first call that does
\* not return HIBP_OK (hassert0 exits); a failed assert() ends the program.
Stopped ==
  \/ last.op \in {"new", "save", "load"} /\ last.st # HIBP_OK
  \/ last.op \in {"insert", "query"} /\ last.abort

\* hibp_bf_new / hibp_bf_new_prng on a structure that holds no filter.
New ==
  /\ ~Stopped
  /\ ~owned
  /\ ~saved.file
  /\ \E p \in NewParams, seed \in Seeds, heapOk \in BOOLEAN :
       LET r == hibp_bf_new_prng(bf, p[1], p[2], seed, heapOk, shiftWide)
       IN  /\ bf' = r.bf
           /\ owned' = (r.st = HIBP_OK)
           /\ live' = live + r.mallocs
           /\ last' = [op |-> "new", st |-> r.st, k |-> p[1], b |-> p[2],
                       heapOk |-> heapOk, mallocs |-> r.mallocs, frees |-> 0]
  /\ inserted' = {}
  /\ saved' = NoSave
  /\ UNCHANGED <<ex, stream, shiftWide, ndebug>>

\* hibp_bf_insert_sha1(bf, Digest(d)).
InsertSha1 ==
  /\ ~Stopped
  /\ owned
  /\ \E d \in DigestIds, junk \in {0, 1} :
       LET r == hibp_bf_insert_sha1(bf, Digest(d), junk, shiftWide, ndebug)
       IN  /\ bf' = r.bf
           /\ inserted' = inserted \cup {d}
           /\ last' = [op |-> "insert", d |-> d, oob |-> r.oob, abort |-> r.abort]
  /\ UNCHANGED <<ex, owned, live, stream, shiftWide, ndebug, saved>>

\* hibp_bf_query_sha1(bf, Digest(d)).
QuerySha1 ==
  /\ ~Stopped
  /\ owned
  /\ \E d \in DigestIds, junk \in {0, 1} :
       LET ret == hibp_bf_query_sha1(bf, Digest(d), junk, shiftWide, ndebug)
       IN  last' = [op |-> "query", d |-> d, ret |-> ret, abort |-> ret = Abort]
  /\ UNCHANGED <<ex, bf, owned, live, stream, shiftWide, ndebug, inserted, saved>>

\* hibp_bf_destroy(bf).
Destroy ==
  /\ ~Stopped
  /\ owned
  /\ bf' = hibp_bf_destroy(bf)
  /\ owned' = FALSE
  /\ live' = live - 1
  /\ inserted' = {}
  /\ last' = [op |-> "destroy"]
  /\ UNCHANGED <<ex, stream, shiftWide, ndebug, saved>>

\* hibp_bf_save_stream / hibp_bf_save_file to a new file whose putc fails
\* on call failAt, or never.  A filter is saved once, as in test-roundtrip.c.
Save ==
  /\ ~Stopped
  /\ owned
  /\ saved = NoSave
  /\ \E failAt \in 0 .. (Len(bf.buffer) + SHA1_BYTES + 13) :
       LET r == hibp_bf_save_stream(bf, failAt, shiftWide)
       IN  /\ stream' = r.out
           /\ bf' = r.bf
           /\ saved' = [file |-> TRUE, bf |-> bf]
           /\ last' = [op |-> "save", st |-> r.st, failAt |-> failAt,
                       calls |-> r.calls]
  /\ UNCHANGED <<ex, owned, live, shiftWide, ndebug, inserted>>

\* hibp_bf_load_stream / hibp_bf_load_file of the saved file, or of a changed
\* copy of it, into a structure that holds no filter; the caller removes the
\* file afterwards.
Load ==
  /\ ~Stopped
  /\ ~owned
  /\ saved.file
  /\ \E i \in LoadInputs, heapOk \in BOOLEAN :
       LET r == hibp_bf_load_stream(bf, i.in, heapOk, shiftWide)
       IN  /\ bf' = r.bf
           /\ owned' = (r.st = HIBP_OK)
           /\ live' = live + r.mallocs - r.frees
           /\ last' = [op |-> "load", st |-> r.st, how |-> i.how,
                       heapOk |-> heapOk, consumed |-> r.consumed,
                       mallocs |-> r.mallocs, frees |-> r.frees]
  /\ stream' = <<>>
  /\ saved' = [saved EXCEPT !.file = FALSE]
  /\ inserted' = {}
  /\ UNCHANGED <<ex, shiftWide, ndebug>>

Next == New \/ InsertSha1 \/ QuerySha1 \/ Destroy \/ Save \/ Load

Spec == Init /\ [][Next]_vars

\* ------------------------------------------------------------------------
\* The insert and query functions that take a buffer or a C string
\* ------------------------------------------------------------------------

\* A strlen that is one short.
strlen_short(str) == IF Len(str) = 0 THEN 0 ELSE Len(str) - 1

\* strlen(str) of the C string whose bytes are str, followed by a NUL: the
\* number of bytes before the first NUL.
strlen(str) ==
  IF \E i \in 1 .. Len(str) : str[i] = 0
  THEN (CHOOSE i \in 1 .. Len(str) : str[i] = 0 /\ \A j \in 1 .. (i - 1) : str[j] # 0) - 1
  ELSE Len(str)

hibp_bf_insert(f, size, buffer, junk, sw, nd) ==
  hibp_bf_insert_sha1(f, sha1(size, buffer), junk, sw, nd)

hibp_bf_insert_str(f, str, junk, sw, nd) ==
  hibp_bf_insert(f, strlen(str), str, junk, sw, nd)

hibp_bf_query(f, size, buffer, junk, sw, nd) ==
  hibp_bf_query_sha1(f, sha1(size, buffer), junk, sw, nd)

hibp_bf_query_str(f, str, junk, sw, nd) ==
  hibp_bf_query(f, strlen(str), str, junk, sw, nd)

\* hibp_bf_insert(bf, size, buffer) with the bytes of Str(d).
Insert ==
  /\ ~Stopped
  /\ owned
  /\ \E d \in DigestIds, junk \in {0, 1} :
       LET r == hibp_bf_insert(bf, Len(Str(d)), Str(d), junk, shiftWide, ndebug)
       IN  /\ bf' = r.bf
           /\ inserted' = inserted \cup {d}
           /\ last' = [op |-> "insert", via |-> "hibp_bf_insert", d |-> d,
                       oob |-> r.oob, abort |-> r.abort]
  /\ UNCHANGED <<ex, owned, live, stream, shiftWide, ndebug, saved>>

\* hibp_bf_insert_str(bf, str) with the C string Str(d).
InsertStr ==
  /\ ~Stopped
  /\ owned
  /\ \E d \in DigestIds, junk \in {0, 1} :
       LET r == hibp_bf_insert_str(bf, Str(d), junk, shiftWide, ndebug)
       IN  /\ bf' = r.bf
           /\ inserted' = inserted \cup {d}
           /\ last' = [op |-> "insert", via |-> "hibp_bf_insert_str", d |-> d,
                       oob |-> r.oob, abort |-> r.abort]
  /\ UNCHANGED <<ex, owned, live, stream, shiftWide, ndebug, saved>>

\* hibp_bf_query(bf, size, buffer) with the bytes of Str(d).
Query ==
  /\ ~Stopped
  /\ owned
  /\ \E d \in DigestIds, junk \in {0, 1} :
       LET ret == hibp_bf_query(bf, Len(Str(d)), Str(d), junk, shiftWide, ndebug)
       IN  last' = [op |-> "query", via |-> "hibp_bf_query", d |-> d,
                    ret |-> ret, abort |-> ret = Abort]
  /\ UNCHANGED <<ex, bf, owned, live, stream, shiftWide, ndebug, inserted, saved>>

\* hibp_bf_query_str(bf, str) with the C string Str(d).
QueryStr ==
  /\ ~Stopped
  /\ owned
  /\ \E d \in DigestIds, junk \in {0, 1} :
       LET ret == hibp_bf_query_str(bf, Str(d), junk, shiftWide, ndebug)
       IN  last' = [op |-> "query", via |-> "hibp_bf_query_str", d |-> d,
                    ret |-> ret, abort |-> ret = Abort]
  /\ UNCHANGED <<ex, bf, owned, live, stream, shiftWide, ndebug, inserted, saved>>

\* The program of test-insert-query-variants.c: a filter is created, strings
\* are inserted and queried through any of the three variants of each
\* function, the filter is destroyed.
NextVariants ==
  New \/ Insert \/ InsertStr \/ InsertSha1 \/ Query \/ QueryStr \/ QuerySha1 \/ Destroy

SpecVariants == Init /\ [][NextVariants]_vars

\* ------------------------------------------------------------------------
\* Files that were not written by save
\* ------------------------------------------------------------------------

\* The serialization s of a filter with byte i of its buffer (0-based)
\* replaced by v and the checksum of the changed buffer in the place of the
\* old one: the bytes save writes for a buffer with that byte.
Forge(s, i, v) ==
  LET buffer == ReplaceAt(SubSeq(s, SHA1_BYTES + 14, Len(s)), i + 1, v)
  IN  SubSeq(s, 1, 13) \o sha1(Len(buffer), buffer) \o buffer

\* The values put in the place of a byte of H: SHA1_BITS, the least value
\* that is no index of a bit of a digest, and the greatest byte.
ForgedIndices == {SHA1_BITS, 255}

\* hibp_bf_load_stream / hibp_bf_load_file of a file made from the saved one
\* by Forge on a byte of H.
LoadForged ==
  /\ ~Stopped
  /\ ~owned
  /\ saved.file
  /\ \E i \in 0 .. (bvector(saved.bf) - 1), v \in ForgedIndices, heapOk \in BOOLEAN :
       LET r == hibp_bf_load_stream(bf, Forge(stream, i, v), heapOk, shiftWide)
       IN  /\ bf' = r.bf
           /\ owned' = (r.st = HIBP_OK)
           /\ live' = live + r.mallocs - r.frees
           /\ last' = [op |-> "load", st |-> r.st, how |-> [kind |-> "forge"],
                       heapOk |-> heapOk, consumed |-> r.consumed,
                       mallocs |-> r.mallocs, frees |-> r.frees]
  /\ stream' = <<>>
  /\ saved' = [saved EXCEPT !.file = FALSE]
  /\ inserted' = {}
  /\ UNCHANGED <<ex, shiftWide, ndebug>>

NextForged == New \/ InsertSha1 \/ QuerySha1 \/ Destroy \/ Save \/ LoadForged

SpecForged == Init /\ [][NextForged]_vars

\* ------------------------------------------------------------------------
\* Filters with many hash functions
\* ------------------------------------------------------------------------

\* The permutation array of hibp_bf_new_prng after its n-th shuffle (the
\* n-th pass of the generation loop); n = 0: as initialized.
RECURSIVE permutation_after(_, _)
permutation_after(n, seed) ==
  IF n = 0 THEN Identity
  ELSE IF n = 1 THEN FirstShuffle[seed]
  ELSE fisher_yates(permutation_after(n - 1, seed), seed, (n - 1) * (SHA1_BITS - 1))

\* The (n_hash_functions, log2_bits) pairs around one and two permutations'
\* worth of indices: k * b at, just below and just above 160 and 320.
FamilyBits == {1, 2, 3, 5, 8, 16}
FamilyParams ==
  {<<k, b>> \in (1 .. 321) \X FamilyBits :
     k \in {1, 2, SHA1_BITS \div b, SHA1_BITS \div b + 1,
            (2 * SHA1_BITS) \div b, (2 * SHA1_BITS) \div b + 1}}

\* hibp_bf_new_prng with one of these pairs.
NewFamily ==
  /\ ~Stopped
  /\ ~owned
  /\ \E p \in FamilyParams, seed \in Seeds, heapOk \in BOOLEAN :
       LET r == hibp_bf_new_prng(bf, p[1], p[2], seed, heapOk, shiftWide)
       IN  /\ bf' = r.bf
           /\ owned' = (r.st = HIBP_OK)
           /\ live' = live + r.mallocs
           /\ last' = [op |-> "new", st |-> r.st, k |-> p[1], b |-> p[2],
                       seed |-> seed, heapOk |-> heapOk, mallocs |-> r.mallocs,
                       frees |-> 0]
  /\ inserted' = {}
  /\ saved' = NoSave
  /\ UNCHANGED <<ex, stream, shiftWide, ndebug>>

NextFamily == NewFamily \/ Destroy

SpecFamily == Init /\ [][NextFamily]_vars

\* ------------------------------------------------------------------------
\* The utility functions, called on their own
\* ------------------------------------------------------------------------

\* The n_hash_functions compute_buffer_size is called with: the small ones,
\* and those at which log2_bits * n_hash_functions or the sum with the size
\* of the vector passes SIZE_MAX for some log2_bits.
SizeKs ==
  (0 .. MaxK)
    \cup {MIN((SIZE_MAX \div b) + e, SIZE_MAX) : b \in 1 .. LOG2_BITS_MAX, e \in {0, 1}}
    \cup {((SIZE_MAX - ((Pow2(b) + 7) \div 8)) \div b) + e :
            b \in 1 .. (SIZE_BITS - 1), e \in {0, 1}}

\* compute_buffer_size(&buffer_size, n_hash_functions, log2_bits).
ComputeBufferSize ==
  /\ \E k \in SizeKs, b \in 0 .. (LOG2_BITS_MAX + 1) :
       LET r == compute_buffer_size(k, b, shiftWide)
       IN  last' = [op |-> "compute_buffer_size", k |-> k, b |-> b,
                    st |-> r.st, size |-> r.size]
  /\ UNCHANGED <<ex, bf, owned, live, stream, shiftWide, ndebug, inserted, saved>>

NextSizes == ComputeBufferSize

SpecSizes == Init /\ [][NextSizes]_vars

\* A character is its ASCII code; a C string is the sequence of its
\* characters with the terminating NUL.  hex[k] of the code is hex[k + 1].
\* One pass of the inner loop of hibp_sha1_hex2bin: bin[i] <<= 4, then the
\* value of hex[k] is or-ed in; -1 for the else branch.
hex_digit(byte, c) ==
  LET shifted == (byte * 16) % 256
  IN  IF 48 <= c /\ c <= 57 THEN shifted + (c - 48)
      ELSE IF 97 <= c /\ c <= 102 THEN shifted + (10 + c - 97)
      ELSE IF 65 <= c /\ c <= 70 THEN shifted + (10 + c - 65)
      ELSE -1

\* for(int i = 0; i < 20; i ++) { bin[i] = 0; for(int k = i; k <= i + 1; k ++) ... }
RECURSIVE hex2bin_loop(_, _, _)
hex2bin_loop(bin, hex, i) ==
  IF i = 20 THEN [st |-> HIBP_OK, bin |-> bin]
  ELSE LET first == hex_digit(0, hex[i + 1])
           second == hex_digit(first, hex[i + 2])
       IN  IF first = -1
           THEN [st |-> HIBP_E_INVAL, bin |-> [bin EXCEPT ![i + 1] = 0]]
           ELSE IF second = -1
           THEN [st |-> HIBP_E_INVAL, bin |-> [bin EXCEPT ![i + 1] = (first * 16) % 256]]
           ELSE hex2bin_loop([bin EXCEPT ![i + 1] = second], hex, i + 1)

hibp_sha1_hex2bin(bin, hex) == hex2bin_loop(bin, hex, 0)

\* The strings hibp_sha1_hex2bin is called with: forty hexadecimal digits
\* (all '0', or a run through the digits in lower and upper case), one of
\* them replaced by a character at the edges of the ranges '0'..'9',
\* 'A'..'F', 'a'..'f', or the string cut short there.
HexDigits == <<48, 49, 50, 51, 52, 53, 54, 55, 56, 57, 97, 98, 99, 100, 101, 102,
               65, 66, 67, 68, 69, 70>>
HexBases ==
  {[i \in 1 .. 40 |-> 48],
   [i \in 1 .. 40 |-> HexDigits[((3 * i) % 22) + 1]],
   [i \in 1 .. 40 |-> HexDigits[((7 * i + 5) % 22) + 1]]}
EdgeChars == {47, 48, 57, 58, 64, 65, 70, 71, 96, 97, 102, 103}
HexInputs ==
  {base \o <<0>> : base \in HexBases}
    \cup {ReplaceAt(base, p, c) \o <<0>> : base \in HexBases, p \in 1 .. 40, c \in EdgeChars}
    \cup {SubSeq(base, 1, p) \o <<0>> : base \in HexBases, p \in 0 .. 39}

\* hibp_sha1_hex2bin(bin, hex) into a zeroed bin.  The function keeps
\* nothing between calls: a behaviour makes one call.
Hex2Bin ==
  /\ last.op = "none"
  /\ \E hex \in HexInputs :
       LET r == hibp_sha1_hex2bin(Zeroes(HIBP_SHA1_BYTES), hex)
       IN  last' = [op |-> "hex2bin", hex |-> hex, st |-> r.st, bin |-> r.bin]
  /\ UNCHANGED <<ex, bf, owned, live, stream, shiftWide, ndebug, inserted, saved>>

NextHex == Hex2Bin

SpecHex == Init /\ [][NextHex]_vars

\* log(2) as a fixed-point number: floor(log(2) * 2^30).
Ln2Q30 == 744261117

\* The candidates of the loop of hibp_compute_constrained_params that are
\* followed; the loop that passes the last of them is reported as not having
\* returned.
CandidateCap == 24

\* ceil(pow(2, candidate_log2_bits) / count * log_of_2 + 1e-6), or the cap
\* when that is above N_HASH_FUNCTIONS_MAX.  2^b * log(2) / count is never an
\* integer, so the ceiling is the floor plus one, and floor(2^b * log(2)) is
\* floor(Ln2Q30 / 2^(30 - b)) for b <= 30; the 1e-6 changes the result only
\* within 1e-6 below an integer, which none of the inputs used here comes to.
\* count = 0 divides to infinity.
\* capped: the value of (d > N_HASH_FUNCTIONS_MAX) ? N_HASH_FUNCTIONS_MAX : d
\* when d is greater.  The conditional has type double; where size_t has 64
\* bits, N_HASH_FUNCTIONS_MAX converts to the double 2^64, and converting
\* that back to size_t is undefined: 0 with gcc on x86-64.  Where the double
\* holds N_HASH_FUNCTIONS_MAX exactly, it is N_HASH_FUNCTIONS_MAX.
candidate_n_hash_functions(count, candidate_log2_bits, capped) ==
  IF count = 0 THEN capped
  ELSE LET d == ((Ln2Q30 \div Pow2(30 - candidate_log2_bits)) \div count) + 1
       IN  IF d > N_HASH_FUNCTIONS_MAX THEN capped ELSE d

\* for(size_t candidate_log2_bits = 8;; candidate_log2_bits ++).  out: the
\* values last stored through the two pointers.  compute_buffer_size is
\* called with (candidate_log2_bits, candidate_n_hash_functions), in that
\* order, as the code has it.
RECURSIVE constrained_loop(_, _, _, _, _, _)
constrained_loop(out, count, max_memory, candidate_log2_bits, capped, sw) ==
  IF candidate_log2_bits > CandidateCap
  THEN [out EXCEPT !.returns = FALSE]
  ELSE LET candidate_k == candidate_n_hash_functions(count, candidate_log2_bits, capped)
           cbs == compute_buffer_size(candidate_log2_bits, candidate_k, sw)
           buffer_size == IF cbs.st # HIBP_OK THEN SIZE_MAX ELSE cbs.size
       IN  IF buffer_size > max_memory /\ candidate_log2_bits > 8
           THEN out
           ELSE constrained_loop([out EXCEPT !.n_hash_functions = candidate_k,
                                             !.log2_bits = candidate_log2_bits],
                                 count, max_memory, candidate_log2_bits + 1,
                                 capped, sw)

hibp_compute_constrained_params(count, max_memory, capped, sw) ==
  constrained_loop([returns |-> TRUE, n_hash_functions |-> 0, log2_bits |-> 0],
                   count, max_memory, 8, capped, sw)

\* The counts and memory limits the function is called with.
Counts == {0, 1, 2, 10, 100, 1000, 10000, 65535}
MaxMemories == {0, 1, 17, 48, 100, 208, 1000, 4096, 10000, 30000, 65534, SIZE_MAX}

\* hibp_compute_constrained_params(&n_hash_functions, &log2_bits, count, max_memory).
ComputeConstrainedParams ==
  /\ \E count \in Counts, max_memory \in MaxMemories,
        capped \in {0, N_HASH_FUNCTIONS_MAX} :
       LET r == hibp_compute_constrained_params(count, max_memory, capped, shiftWide)
       IN  last' = [op |-> "constrained_params", count |-> count,
                    max_memory |-> max_memory, capped |-> capped,
                    returns |-> r.returns,
                    n_hash_functions |-> r.n_hash_functions,
                    log2_bits |-> r.log2_bits]
  /\ UNCHANGED <<ex, bf, owned, live, stream, shiftWide, ndebug, inserted, saved>>

NextParams == ComputeConstrainedParams

SpecParams == Init /\ [][NextParams]_vars

\* ------------------------------------------------------------------------
\* Streams that end after the parameter fields
\* ------------------------------------------------------------------------

\* The 8-byte n_hash_functions fields load is given: every choice of 0, 1 and
\* 255 for the three low bytes and of 0 and 255 for the five high bytes, and
\* the fields save writes for the n_hash_functions of SizeKs.
KFields ==
  {lo \o hi : lo \in [1 .. 3 -> {0, 1, 255}], hi \in [1 .. 5 -> {0, 255}]}
    \cup {size_t_to_le_8_bytes(k) : k \in SizeKs}

\* hibp_bf_load_stream on the magic bytes, an n_hash_functions field and a
\* log2_bits byte, after which getc returns EOF.  The structure keeps the
\* fields load has stored in it by then.  A behaviour loads one such stream.
LoadKField ==
  /\ last.op = "none"
  /\ \E field \in KFields, b \in 1 .. MaxB :
       LET r == hibp_bf_load_stream(bf, VERSION \o field \o <<b>>, TRUE, shiftWide)
       IN  /\ bf' = r.bf
           /\ owned' = (r.st = HIBP_OK)
           /\ live' = live + r.mallocs - r.frees
           /\ last' = [op |-> "load", st |-> r.st, how |-> [kind |-> "kfield"],
                       field |-> field, heapOk |-> TRUE, consumed |-> r.consumed,
                       mallocs |-> r.mallocs, frees |-> r.frees]
  /\ UNCHANGED <<ex, stream, shiftWide, ndebug, inserted, saved>>

NextKField == LoadKField

SpecKField == Init /\ [][NextKField]_vars

\* ------------------------------------------------------------------------
\* The default prng
\* ------------------------------------------------------------------------

\* The numbers of my_rand calls that are followed.
MaxDraws == 2

\* my_rand: sizeof(size_t) bytes of RAND_pseudo_bytes, or of rand() shifted
\* together; any size_t.  numbers[n] is what the n-th call returns.
my_rand(numbers, n) == numbers[n]

\* do { number = my_rand(&use_openssl); } while(number >= limit);
\* A loop that has not ended after the last of the numbers is reported as
\* not having returned.
RECURSIVE prng_loop(_, _, _, _)
prng_loop(numbers, n, limit, upper_bound) ==
  IF n > Len(numbers) THEN [returns |-> FALSE, value |-> 0, calls |-> n - 1]
  ELSE LET number == my_rand(numbers, n)
       IN  IF number >= limit
           THEN prng_loop(numbers, n + 1, limit, upper_bound)
           ELSE [returns |-> TRUE, value |-> number % upper_bound, calls |-> n]

\* default_prng(ctx, upper_bound), upper_bound > 0.
default_prng(upper_bound, numbers) ==
  IF upper_bound = SIZE_MAX
  THEN [returns |-> TRUE, value |-> my_rand(numbers, 1), calls |-> 1]
  ELSE prng_loop(numbers, 1, (SIZE_MAX \div upper_bound) * upper_bound, upper_bound)

\* The upper bounds default_prng is called with (hibp_bf_new_prng uses 2 to
\* 160) and the numbers my_rand returns.
UpperBounds == {1, 2, 3, SHA1_BITS, (SIZE_MAX \div 2) + 1, SIZE_MAX - 1, SIZE_MAX}
Rands == {0, 1, SHA1_BITS, SIZE_MAX \div 2, SIZE_MAX - 1, SIZE_MAX}

DefaultPrng ==
  /\ \E upper_bound \in UpperBounds, numbers \in [1 .. MaxDraws -> Rands] :
       LET r == default_prng(upper_bound, numbers)
       IN  last' = [op |-> "default_prng", upper_bound |-> upper_bound,
                    numbers |-> numbers, returns |-> r.returns,
                    value |-> r.value, calls |-> r.calls]
  /\ UNCHANGED <<ex, bf, owned, live, stream, shiftWide, ndebug, inserted, saved>>

NextPrng == DefaultPrng

SpecPrng == Init /\ [][NextPrng]_vars

\* ------------------------------------------------------------------------
\* The command line tool (src/src/bin): tokens
\* ------------------------------------------------------------------------

\* A token_t is the sequence of its characters (buffer[0 .. length-1]).
\* Command names, file names and formats, which the code only compares with
\* token_eq, are written as strings.

isdigit(c) == 48 <= c /\ c <= 57
isspace(c) == c \in {9, 10, 11, 12, 13, 32}

\* token_eq(token, str)
token_eq(token, str) == token = str

\* token2size: -1 for the empty token, a character that is no digit, or a
\* value above SIZE_MAX.
RECURSIVE token2size_loop(_, _, _)
token2size_loop(value, token, i) ==
  IF i > Len(token) THEN [rc |-> 0, value |-> value]
  ELSE IF ~isdigit(token[i]) THEN [rc |-> -1, value |-> value]
  ELSE IF value > (SIZE_MAX - (token[i] - 48)) \div 10 THEN [rc |-> -1, value |-> value]
  ELSE token2size_loop(10 * value + (token[i] - 48), token, i + 1)

token2size(token) ==
  IF Len(token) = 0 THEN [rc |-> -1, value |-> 0] ELSE token2size_loop(0, token, 1)

\* token2double: the value is num / den.  On -1 the value holds what the
\* digits before the offending character gave it, as *value does.
RECURSIVE token2double_fraction(_, _, _, _)
token2double_fraction(num, den, token, i) ==
  IF i > Len(token) THEN [rc |-> 0, num |-> num, den |-> den]
  ELSE IF ~isdigit(token[i]) THEN [rc |-> -1, num |-> num, den |-> den]
  ELSE token2double_fraction(10 * num + (token[i] - 48), 10 * den, token, i + 1)

RECURSIVE token2double_integer(_, _, _)
token2double_integer(value, token, i) ==
  IF i > Len(token) THEN [rc |-> 0, num |-> value, den |-> 1]
  ELSE IF token[i] = 46 THEN token2double_fraction(value, 1, token, i + 1)
  ELSE IF ~isdigit(token[i]) THEN [rc |-> -1, num |-> value, den |-> 1]
  ELSE token2double_integer(10 * value + (token[i] - 48), token, i + 1)

token2double(token) ==
  IF Len(token) = 0 THEN [rc |-> -1, num |-> 0, den |-> 1]
  ELSE token2double_integer(0, token, 1)

\* hex2int of token.c: the letters up to 'z' and 'Z' count as digits.
hex2int(hex) ==
  IF 48 <= hex /\ hex <= 57 THEN hex - 48
  ELSE IF 97 <= hex /\ hex <= 122 THEN 10 + hex - 97
  ELSE IF 65 <= hex /\ hex <= 90 THEN 10 + hex - 65
  ELSE -1

\* a | b for a, b below 2^n
RECURSIVE BitOr(_, _, _)
BitOr(a, b, n) ==
  IF n = 0 THEN 0
  ELSE (IF a % 2 = 1 \/ b % 2 = 1 THEN 1 ELSE 0) + 2 * BitOr(a \div 2, b \div 2, n - 1)

\* token2sha: the bytes of sha it has written when it returns; the others
\* are as they were (sha is an uninitialized array of the caller).
RECURSIVE token2sha_loop(_, _, _)
token2sha_loop(sha, token, j) ==
  IF j = 20 THEN [rc |-> 0, sha |-> sha]
  ELSE LET high == hex2int(token[2 * j + 1])
           low == hex2int(token[2 * j + 2])
       IN  IF high = -1 \/ low = -1 THEN [rc |-> -1, sha |-> sha]
           ELSE token2sha_loop([sha EXCEPT ![j + 1] = BitOr(high * 16, low, 10) % 256],
                               token, j + 1)

token2sha(sha, token) ==
  IF Len(token) # 40 THEN [rc |-> -1, sha |-> sha] ELSE token2sha_loop(sha, token, 0)

\* HEX(v) of executor.c, and the forty digits of a digest.
HEX(v) == IF 0 <= v /\ v <= 9 THEN 48 + v ELSE 97 + v - 10
HexOf(sha) ==
  [i \in 1 .. (2 * Len(sha)) |->
     IF i % 2 = 1 THEN HEX(sha[(i + 1) \div 2] \div 16) ELSE HEX(sha[i \div 2] % 16)]

\* ------------------------------------------------------------------------
\* The command line tool: the executor (executor.c)
\* ------------------------------------------------------------------------

\* commands[]: name, min_arity, max_arity, filter_required, filter_unrequired.
command_t(name, min_arity, max_arity, filter_required, filter_unrequired) ==
  [name |-> name, min_arity |-> min_arity, max_arity |-> max_arity,
   filter_required |-> filter_required, filter_unrequired |-> filter_unrequired]

commands ==
  {command_t("status", 0, 0, TRUE, FALSE),
   command_t("create", 2, 2, FALSE, TRUE),
   command_t("create-auto", 2, 2, FALSE, TRUE),
   command_t("load", 1, 1, FALSE, TRUE),
   command_t("save", 1, 1, TRUE, FALSE),
   command_t("unload", 0, 0, TRUE, FALSE),
   command_t("insert", 1, SIZE_MAX, TRUE, FALSE),
   command_t("insert-sha", 1, SIZE_MAX, TRUE, FALSE),
   command_t("insert-file", 1, 2, TRUE, FALSE),
   command_t("query", 1, SIZE_MAX, TRUE, FALSE),
   command_t("query-sha", 1, SIZE_MAX, TRUE, FALSE),
   command_t("query-file", 1, 2, TRUE, FALSE),
   command_t("falsepos", 0, 1, TRUE, FALSE),
   command_t("sha", 1, 1, FALSE, FALSE),
   command_t("help", 0, 1, FALSE, FALSE)}

\* fail: the executor with its status set (the message goes to stderr).
fail(e, status) == [e EXCEPT !.status = status]

\* find_command: the entry of the table, or none.
find_command(name) ==
  IF \E c \in commands : token_eq(name, c.name)
  THEN {CHOOSE c \in commands : token_eq(name, c.name)}
  ELSE {}

\* What a callback, or executor_exec_one, leaves behind:
\*   ex, bf     the executor and its filter afterwards
\*   abort      the assert() that failed and ended the program, or "none"
\*   callback   the callback that was run, or "none"
\*   st         the status of the library call made, or "none"
\*   created    hibp_bf_new / hibp_bf_load_file put a new buffer into bf
\*   destroyed  hibp_bf_destroy freed the buffer of bf
\*   stdin      the number of times standard input was reopened for reading
\*   out        the bytes written by save
\*   shas       the digests handed to hibp_bf_insert_sha1
\*   returns    FALSE when the callback never returns
\*   rejected   why executor_exec_one did not run the callback, or "none"
Ret(e, f) ==
  [ex |-> e, bf |-> f, abort |-> "none", callback |-> "none", st |-> "none",
   created |-> FALSE, destroyed |-> FALSE, mallocs |-> 0, frees |-> 0,
   stdin |-> 0, out |-> <<>>, wrote |-> FALSE, shas |-> {}, returns |-> TRUE,
   rejected |-> "none"]

Aborted(e, f, what) == [Ret(e, f) EXCEPT !.abort = what]

\* ex_fopen for the file name token: "-" is standard input or output, the
\* file "missing" cannot be opened, every other name can.  The names hold
\* no null byte and the copy of the name is allocated.  freopenOk: freopen
\* returns a stream.
ex_fopen(e, token, in, freopenOk) ==
  IF token_eq(token, "-")
  THEN IF in /\ e.stdin_consumed
       THEN [ex |-> fail(e, EX_E_RECOVERABLE), file |-> "NULL", stdin |-> 0]
       ELSE IF ~freopenOk
       THEN [ex |-> fail(e, EX_E_FATAL), file |-> "NULL", stdin |-> IF in THEN 1 ELSE 0]
       ELSE [ex |-> e, file |-> IF in THEN "stdin" ELSE "stdout",
             stdin |-> IF in THEN 1 ELSE 0]
  ELSE IF token = "missing"
  THEN [ex |-> fail(e, EX_E_RECOVERABLE), file |-> "NULL", stdin |-> 0]
  ELSE [ex |-> e, file |-> "file", stdin |-> 0]

\* The result of hibp_bf_new / hibp_bf_load_file in a callback: on HIBP_OK
\* the filter is initialized, otherwise the command fails.
filter_made(e, r, failed) ==
  IF r.st = HIBP_OK
  THEN [Ret([e EXCEPT !.filter_initialized = TRUE], r.bf) EXCEPT
          !.st = r.st, !.created = TRUE, !.mallocs = r.mallocs]
  ELSE [Ret(failed, r.bf) EXCEPT !.st = r.st, !.mallocs = r.mallocs]

exec_status(e, f, args, env) ==
  IF ~env.nd /\ ~e.filter_initialized THEN Aborted(e, f, "filter_initialized")
  ELSE Ret(e, f)

exec_create(e, f, args, env) ==
  LET n_hash_functions == token2size(args[1])
      log2_bits == token2size(args[2])
      r == hibp_bf_new_prng(f, n_hash_functions.value, log2_bits.value,
                            env.seed, env.heapOk, env.sw)
  IN  IF ~env.nd /\ e.filter_initialized THEN Aborted(e, f, "filter_initialized")
      ELSE IF n_hash_functions.rc = -1 \/ n_hash_functions.value = 0
      THEN Ret(fail(e, EX_E_RECOVERABLE), f)
      ELSE IF log2_bits.rc = -1 \/ n_hash_functions.value = 0
      THEN Ret(fail(e, EX_E_RECOVERABLE), f)
      ELSE filter_made(e, r, fail(e, IF r.st = HIBP_E_NOMEM THEN EX_E_FATAL
                                     ELSE EX_E_RECOVERABLE))

\* exec_create_auto with two arguments (the table admits no third).  The
\* parameters come out of floating point logarithms and of
\* hibp_compute_total_size, which no file of the repository defines: they
\* are env.auto, any pair of AutoParams.
exec_create_auto(e, f, args, env) ==
  LET count == token2size(args[1])
      rate == token2double(args[2])
      e1 == IF rate.rc = -1 THEN fail(e, EX_E_RECOVERABLE) ELSE e
      r == hibp_bf_new_prng(f, env.auto[1], env.auto[2], env.seed, env.heapOk, env.sw)
  IN  IF ~env.nd /\ e.filter_initialized THEN Aborted(e, f, "filter_initialized")
      ELSE IF count.rc = -1 THEN Ret(fail(e, EX_E_RECOVERABLE), f)
      ELSE filter_made(e1, r, fail(e1, IF r.st = HIBP_E_NOMEM THEN EX_E_FATAL
                                       ELSE EX_E_RECOVERABLE))

\* exec_load: env.content are the bytes of the file (or of standard input).
exec_load(e, f, args, env) ==
  LET file == ex_fopen(e, args[1], TRUE, env.freopenOk)
      r == hibp_bf_load_stream(f, env.content, env.heapOk, env.sw)
      made == filter_made(file.ex, r, fail(file.ex, EX_E_RECOVERABLE))
  IN  IF ~env.nd /\ e.filter_initialized THEN Aborted(e, f, "filter_initialized")
      ELSE IF file.file = "NULL" THEN [Ret(file.ex, f) EXCEPT !.stdin = file.stdin]
      ELSE IF r.st # HIBP_OK /\ r.st # HIBP_E_IO /\ ~env.nd
      THEN [Aborted(file.ex, r.bf, "status == HIBP_E_IO") EXCEPT
              !.st = r.st, !.stdin = file.stdin, !.mallocs = r.mallocs,
              !.frees = r.frees]
      ELSE [made EXCEPT !.stdin = file.stdin, !.frees = r.frees]

\* exec_save: putc fails on call env.failAt, or never.
exec_save(e, f, args, env) ==
  LET file == ex_fopen(e, args[1], FALSE, env.freopenOk)
      r == hibp_bf_save_stream(f, env.failAt, env.sw)
  IN  IF ~env.nd /\ ~e.filter_initialized THEN Aborted(e, f, "filter_initialized")
      ELSE IF file.file = "NULL" THEN Ret(file.ex, f)
      ELSE [Ret(IF r.st = HIBP_OK THEN file.ex ELSE fail(file.ex, EX_E_RECOVERABLE), r.bf)
              EXCEPT !.st = r.st, !.out = r.out, !.wrote = (file.file = "file")]

exec_unload(e, f, args, env) ==
  IF ~env.nd /\ ~e.filter_initialized THEN Aborted(e, f, "filter_initialized")
  ELSE [Ret([e EXCEPT !.filter_initialized = FALSE], hibp_bf_destroy(f)) EXCEPT
          !.destroyed = TRUE, !.frees = 1]

\* exec_insert: hibp_bf_insert of each argument in turn.
RECURSIVE exec_insert_loop(_, _, _, _)
exec_insert_loop(acc, args, env, i) ==
  IF i > Len(args) THEN acc
  ELSE LET r == hibp_bf_insert(acc.bf, Len(args[i]), args[i], env.junk, env.sw, env.nd)
           next == [acc EXCEPT !.bf = r.bf,
                               !.shas = @ \cup {sha1(Len(args[i]), args[i])}]
       IN  IF r.abort THEN [next EXCEPT !.abort = "value"]
           ELSE exec_insert_loop(next, args, env, i + 1)

exec_insert(e, f, args, env) ==
  IF ~env.nd /\ ~e.filter_initialized THEN Aborted(e, f, "filter_initialized")
  ELSE exec_insert_loop(Ret(e, f), args, env, 1)

\* exec_insert_sha: sha is the array of the loop body, which token2sha
\* fills; where it does not, the array holds what the stack held before,
\* env.uninit in the first round and the bytes of the round before later.
RECURSIVE exec_insert_sha_loop(_, _, _, _, _)
exec_insert_sha_loop(acc, sha, args, env, i) ==
  IF i > Len(args) THEN acc
  ELSE LET t == token2sha(sha, args[i])
           e1 == IF t.rc = -1 THEN fail(acc.ex, EX_E_RECOVERABLE) ELSE acc.ex
           r == hibp_bf_insert_sha1(acc.bf, t.sha, env.junk, env.sw, env.nd)
           next == [acc EXCEPT !.ex = e1, !.bf = r.bf, !.shas = @ \cup {t.sha}]
       IN  IF r.abort THEN [next EXCEPT !.abort = "value"]
           ELSE exec_insert_sha_loop(next, t.sha, args, env, i + 1)

exec_insert_sha(e, f, args, env) ==
  IF ~env.nd /\ ~e.filter_initialized THEN Aborted(e, f, "filter_initialized")
  ELSE exec_insert_sha_loop(Ret(e, f), env.uninit, args, env, 1)

\* exec_query: hibp_bf_query of each argument; the copy made by token2str is
\* allocated.
RECURSIVE exec_query_loop(_, _, _, _)
exec_query_loop(acc, args, env, i) ==
  IF i > Len(args) THEN acc
  ELSE IF hibp_bf_query(acc.bf, Len(args[i]), args[i], env.junk, env.sw, env.nd) = Abort
  THEN [acc EXCEPT !.abort = "value"]
  ELSE exec_query_loop(acc, args, env, i + 1)

exec_query(e, f, args, env) ==
  IF ~env.nd /\ ~e.filter_initialized THEN Aborted(e, f, "filter_initialized")
  ELSE exec_query_loop(Ret(e, f), args, env, 1)

RECURSIVE exec_query_sha_loop(_, _, _, _, _)
exec_query_sha_loop(acc, sha, args, env, i) ==
  IF i > Len(args) THEN acc
  ELSE LET t == token2sha(sha, args[i])
       IN  IF t.rc = -1 THEN [acc EXCEPT !.ex = fail(acc.ex, EX_E_RECOVERABLE)]
           ELSE IF hibp_bf_query_sha1(acc.bf, t.sha, env.junk, env.sw, env.nd) = Abort
           THEN [acc EXCEPT !.abort = "value"]
           ELSE exec_query_sha_loop(acc, t.sha, args, env, i + 1)

exec_query_sha(e, f, args, env) ==
  IF ~env.nd /\ ~e.filter_initialized THEN Aborted(e, f, "filter_initialized")
  ELSE exec_query_sha_loop(Ret(e, f), env.uninit, args, env, 1)

\* exec_falsepos: the queries of random values change nothing.
exec_falsepos(e, f, args, env) ==
  IF ~env.nd /\ ~e.filter_initialized THEN Aborted(e, f, "filter_initialized")
  ELSE IF Len(args) = 1 /\ token2size(args[1]).rc = -1
  THEN Ret(fail(e, EX_E_RECOVERABLE), f)
  ELSE Ret(e, f)

exec_sha(e, f, args, env) == Ret(e, f)

exec_help(e, f, args, env) ==
  IF Len(args) = 1 /\ find_command(args[1]) = {}
  THEN Ret(fail(e, EX_E_RECOVERABLE), f)
  ELSE Ret(e, f)

\* ------------------------------------------------------------------------
\* The command line tool: files of strings (insert-file, query-file)
\* ------------------------------------------------------------------------

\* The stream_t over a file is the characters in of the file and the number
\* pos of them that stream_getc has taken: stream_peek is in[pos + 1], or
\* EOF when pos = Len(in).
EOF == -1
stream_peek(in, pos) == IF pos < Len(in) THEN in[pos + 1] ELSE EOF

\* ex_token2format
ex_token2format(e, token) ==
  IF token_eq(token, "strings") THEN [rc |-> 0, format |-> "SF_FORMAT_STRINGS", ex |-> e]
  ELSE IF token_eq(token, "lines") THEN [rc |-> 0, format |-> "SF_FORMAT_LINES", ex |-> e]
  ELSE IF token_eq(token, "shas") THEN [rc |-> 0, format |-> "SF_FORMAT_SHAS", ex |-> e]
  ELSE [rc |-> -1, format |-> "none", ex |-> fail(e, EX_E_RECOVERABLE)]

\* stringfile_skip: the position after the separators it has taken.
RECURSIVE stringfile_skip(_, _, _)
stringfile_skip(in, pos, format) ==
  LET c == stream_peek(in, pos)
  IN  IF format = "SF_FORMAT_STRINGS"
      THEN IF c = EOF \/ ~isspace(c) THEN pos ELSE stringfile_skip(in, pos + 1, format)
      ELSE IF format = "SF_FORMAT_SHAS"
      THEN IF c = EOF \/ (~isspace(c) /\ c # 44) THEN pos
           ELSE stringfile_skip(in, pos + 1, format)
      ELSE pos

\* ex_stringfile_next_string: the characters up to the next space or EOF
\* (token_pushc finds the memory it needs).
RECURSIVE ex_stringfile_next_string(_, _, _)
ex_stringfile_next_string(string, in, pos) ==
  LET c == stream_peek(in, pos)
  IN  IF c = EOF \/ isspace(c) THEN [token |-> string, pos |-> pos]
      ELSE ex_stringfile_next_string(Append(string, c), in, pos + 1)

\* ex_stringfile_next_line: the characters up to the next '\n' or EOF.
RECURSIVE ex_stringfile_next_line(_, _, _)
ex_stringfile_next_line(line, in, pos) ==
  LET c == stream_peek(in, pos)
  IN  IF c = EOF \/ c = 10 THEN [token |-> line, pos |-> pos]
      ELSE ex_stringfile_next_line(Append(line, c), in, pos + 1)

\* ex_stringfile_next_sha: forty stream_getc; -1 at the first character
\* that is no hexadecimal digit (or EOF), which is taken from the stream.
RECURSIVE ex_stringfile_next_sha(_, _, _, _)
ex_stringfile_next_sha(sha, in, pos, i) ==
  IF i = 2 * SHA1_BYTES THEN [rc |-> 0, sha |-> sha, pos |-> pos]
  ELSE LET c == stream_peek(in, pos)
           after == IF c = EOF THEN pos ELSE pos + 1
           nybble == IF 48 <= c /\ c <= 57 THEN c - 48
                     ELSE IF 97 <= c /\ c <= 102 THEN 10 + c - 97
                     ELSE IF 65 <= c /\ c <= 70 THEN 10 + c - 65
                     ELSE -1
           byte == (i \div 2) + 1
       IN  IF nybble = -1 THEN [rc |-> -1, sha |-> sha, pos |-> after]
           ELSE ex_stringfile_next_sha(
                  [sha EXCEPT ![byte] = IF i % 2 = 0 THEN nybble * 16
                                        ELSE BitOr(@, nybble, 8)],
                  in, after, i + 1)

\* The for(;;) of exec_insert_file (insert = TRUE) and of exec_query_file.
\* A round that finds a string takes at least one character from the
\* stream; a round that takes none finds the stream as the round before did
\* and is repeated for ever: returns is FALSE.
RECURSIVE stringfile_loop(_, _, _, _, _, _)
stringfile_loop(acc, in, pos, format, env, insert) ==
  LET at == stringfile_skip(in, pos, format)
      s == ex_stringfile_next_sha(env.uninit, in, at, 0)
      t == IF format = "SF_FORMAT_STRINGS" THEN ex_stringfile_next_string(<<>>, in, at)
           ELSE ex_stringfile_next_line(<<>>, in, at)
      sha == IF format = "SF_FORMAT_SHAS" THEN s.sha ELSE sha1(Len(t.token), t.token)
      ins == hibp_bf_insert_sha1(acc.bf, sha, env.junk, env.sw, env.nd)
      qry == hibp_bf_query_sha1(acc.bf, sha, env.junk, env.sw, env.nd)
      next == IF insert THEN [acc EXCEPT !.bf = ins.bf, !.shas = @ \cup {sha}] ELSE acc
      after == IF format = "SF_FORMAT_SHAS" THEN s.pos ELSE t.pos
  IN  IF stream_peek(in, at) = EOF THEN acc
      ELSE IF format = "SF_FORMAT_SHAS" /\ s.rc = -1
      THEN [acc EXCEPT !.ex = fail(acc.ex, EX_E_RECOVERABLE)]
      ELSE IF format = "SF_FORMAT_STRINGS" /\ Len(t.token) = 0 /\ ~env.nd
      THEN [acc EXCEPT !.abort = "string->length > 0"]
      ELSE IF format = "SF_FORMAT_LINES" /\ Len(t.token) = 0 /\ ~env.nd
      THEN [acc EXCEPT !.abort = "line->length > 0"]
      ELSE IF (IF insert THEN ins.abort ELSE qry = Abort)
      THEN [next EXCEPT !.abort = "value"]
      ELSE IF after = pos THEN [next EXCEPT !.returns = FALSE]
      ELSE stringfile_loop(next, in, after, format, env, insert)

\* exec_insert_file and exec_query_file: env.content are the characters of
\* the file (or of standard input).
exec_stringfile(e, f, args, env, insert) ==
  LET fmt == IF Len(args) = 2 THEN ex_token2format(e, args[2])
             ELSE [rc |-> 0, format |-> "SF_FORMAT_STRINGS", ex |-> e]
      file == ex_fopen(fmt.ex, args[1], TRUE, env.freopenOk)
  IN  IF ~env.nd /\ ~e.filter_initialized THEN Aborted(e, f, "filter_initialized")
      ELSE IF fmt.rc = -1 THEN Ret(fmt.ex, f)
      ELSE IF file.file = "NULL" THEN [Ret(file.ex, f) EXCEPT !.stdin = file.stdin]
      ELSE stringfile_loop([Ret(file.ex, f) EXCEPT !.stdin = file.stdin],
                           env.content, 0, fmt.format, env, insert)

exec_insert_file(e, f, args, env) == exec_stringfile(e, f, args, env, TRUE)

exec_query_file(e, f, args, env) == exec_stringfile(e, f, args, env, FALSE)

\* ------------------------------------------------------------------------
\* The command line tool: executor_exec_one and the scripts it runs
\* ------------------------------------------------------------------------

\* The first of the two tests alone.
filter_guard_required_only(command, e) ==
  IF command.filter_required /\ ~e.filter_initialized THEN "filter_required"
  ELSE "pass"

\* The two tests of executor_exec_one on the filter: "pass", or the test
\* that rejects the command.
filter_guard(command, e) ==
  IF command.filter_required /\ ~e.filter_initialized THEN "filter_required"
  ELSE IF command.filter_unrequired /\ e.filter_initialized THEN "filter_unrequired"
  ELSE "pass"

\* command->exec(ex, arity, args)
exec(name, e, f, args, env) ==
  CASE name = "status" -> exec_status(e, f, args, env)
    [] name = "create" -> exec_create(e, f, args, env)
    [] name = "create-auto" -> exec_create_auto(e, f, args, env)
    [] name = "load" -> exec_load(e, f, args, env)
    [] name = "save" -> exec_save(e, f, args, env)
    [] name = "unload" -> exec_unload(e, f, args, env)
    [] name = "insert" -> exec_insert(e, f, args, env)
    [] name = "insert-sha" -> exec_insert_sha(e, f, args, env)
    [] name = "insert-file" -> exec_insert_file(e, f, args, env)
    [] name = "query" -> exec_query(e, f, args, env)
    [] name = "query-sha" -> exec_query_sha(e, f, args, env)
    [] name = "query-file" -> exec_query_file(e, f, args, env)
    [] name = "falsepos" -> exec_falsepos(e, f, args, env)
    [] name = "sha" -> exec_sha(e, f, args, env)
    [] name = "help" -> exec_help(e, f, args, env)

\* executor_exec_one once the tokens of a command are read: name is the
\* command name, args are its arguments.
executor_exec_one(e, f, name, args, env) ==
  LET found == find_command(name)
      command == CHOOSE c \in found : TRUE
      arity == Len(args)
      reject(why) == [Ret(fail(e, EX_E_RECOVERABLE), f) EXCEPT !.rejected = why]
  IN  IF found = {} THEN reject("no such command")
      ELSE IF arity < command.min_arity THEN reject("min_arity")
      ELSE IF arity > command.max_arity THEN reject("max_arity")
      ELSE IF filter_guard(command, e) # "pass" THEN reject(filter_guard(command, e))
      ELSE [exec(command.name, e, f, args, env) EXCEPT !.callback = command.name]

\* What the environment of a command decides: the seed of the prng and
\* whether malloc and freopen succeed, the bytes read from outside a buffer
\* (junk) and from an array never written (uninit), the bytes of the file
\* read, the putc that fails, and the parameters create-auto arrives at.
Env ==
  [seed |-> 0, heapOk |-> TRUE, freopenOk |-> TRUE, sw |-> shiftWide, nd |-> ndebug,
   junk |-> 0, uninit |-> Zeroes(SHA1_BYTES), content |-> <<>>, failAt |-> 0,
   auto |-> <<1, 1>>]

\* The decimal digits of n.
RECURSIVE Decimal(_)
Decimal(n) == IF n < 10 THEN <<48 + n>> ELSE Append(Decimal(n \div 10), 48 + (n % 10))

\* Tokens: "0", "1", "2", "x", "0.5", "0.5x", the digits of SIZE_MAX + 1 and
\* the empty token.
T0 == Decimal(0)
T1 == Decimal(1)
T2 == Decimal(2)
Tx == <<120>>
THalf == <<48, 46, 53>>
THalfx == <<48, 46, 53, 120>>
TBig == Decimal(SIZE_MAX + 1)
TEmpty == <<>>

\* The arguments of a command that takes none, with one too many.
NoArgs == {<<>>, <<T1>>}

CreateArgs ==
  {<<T1, T1>>, <<T1, T0>>, <<T0, T1>>, <<Tx, T1>>, <<TBig, T1>>, <<T1, Tx>>,
   <<T1>>, <<T1, T1, T1>>}

CreateAutoArgs ==
  {<<T2, THalf>>, <<T2, THalfx>>, <<T2, Tx>>, <<T2, TEmpty>>, <<Tx, THalf>>,
   <<T1>>, <<T1, T1, T1>>}

\* The parameters create-auto hands to hibp_bf_new: a pair hibp_bf_new
\* takes, and one it does not.
AutoParams == {<<1, 1>>, <<0, 1>>}

\* The bytes of the file load reads: the file an earlier run saved of the
\* filter create 1 1 makes, whole, without its last byte, with a bit of its
\* last byte or its first byte changed; no byte; and a text.
EarlierFile ==
  hibp_bf_save_stream(hibp_bf_new_prng(NoFilter, 1, 1, 0, TRUE, 0).bf, 0, 0).out
FilterFiles ==
  {<<>>, Str(13), EarlierFile, SubSeq(EarlierFile, 1, Len(EarlierFile) - 1),
   FlipBit(EarlierFile, Len(EarlierFile) - 1, 0), ReplaceAt(EarlierFile, 1, 0)}

\* The sha arguments: the digits of a digest, the same without the last
\* digit, and with a 'x' or a '/' for the first or the last digit.
ShaTokens ==
  {HexOf(Digest(1)), SubSeq(HexOf(Digest(0)), 1, 39),
   ReplaceAt(HexOf(Digest(1)), 40, 47), ReplaceAt(HexOf(Digest(1)), 1, 47)}
ShaArgs ==
  {<<t>> : t \in ShaTokens}
    \cup {<<>>, <<HexOf(Digest(0)), SubSeq(HexOf(Digest(0)), 1, 39)>>}

\* What an array never written holds: zeroes, or a digest left there.
Uninits == {Zeroes(SHA1_BYTES), Digest(1)}

StrArgs == {<<Str(1)>>, <<Str(0), Str(1)>>, <<>>}

\* The files of strings: no character, "a", "a b", "a\nb", "a\n", "\n",
\* "a\n\nb", a digest, two digests with ",\n" between, a digest cut short.
StringFiles ==
  {<<>>, <<97>>, <<97, 32, 98>>, <<97, 10, 98>>, <<97, 10>>, <<10>>,
   <<97, 10, 10, 98>>,
   HexOf(Digest(0)),
   HexOf(Digest(0)) \o <<44, 10>> \o HexOf(Digest(1)),
   SubSeq(HexOf(Digest(1)), 1, 39)}

\* Lists of arguments that executor_exec_one or ex_fopen turns down, whatever
\* the environment.
Plain(arglists) == arglists \X {Env}

\* The inputs of insert-file and query-file: the commands that open no
\* file, and a file or standard input holding "a b".
StringFileInputs ==
  Plain({<<"missing">>, <<>>, <<"file", "words">>})
    \cup ({<<"file">>, <<"-">>} \X {[Env EXCEPT !.content = <<97, 32, 98>>]})

\* The same with a file in each of the formats.
FormatInputs ==
  ({<<"file">>} \cup {<<"file", format>> : format \in {"strings", "lines", "shas"}})
    \X {[Env EXCEPT !.content = c] : c \in StringFiles}

\* The state executor_new leaves: no filter; stdin_consumed as main has it.
InitCli ==
  /\ bf = NoFilter
  /\ owned = FALSE
  /\ live = 0
  /\ stream = <<>>
  /\ shiftWide \in {0, 1}
  /\ ndebug \in BOOLEAN
  /\ inserted = {}
  /\ saved = NoSave
  /\ ex \in {executor_new(c) : c \in BOOLEAN}
  /\ last = [op |-> "none"]

\* The program has ended: a fatal error, the end of the script, a failed
\* assert(), or a callback that does not return.
CliStopped ==
  \/ ex.status \in {EX_E_FATAL, EX_EOF}
  \/ last.op = "exec" /\ (last.abort # "none" \/ ~last.returns)

\* The caller runs executor_exec_one while the program goes on, and after
\* a recoverable error it has called executor_drain_line (assert(ex->status
\* == EX_OK)).
CanExec == ~CliStopped /\ ex.status = EX_OK

\* The inputs of the commands of a script.  The filter is saved to standard
\* output.
ScriptInputs(name) ==
  CASE name = "status" -> Plain(NoArgs)
    [] name = "create" -> CreateArgs \X {[Env EXCEPT !.heapOk = h] : h \in BOOLEAN}
    [] name = "create-auto" ->
         CreateAutoArgs \X {[Env EXCEPT !.auto = p] : p \in AutoParams}
    [] name = "load" ->
         Plain({<<"missing">>, <<>>, <<"file", "file">>})
           \cup ({<<"-">>, <<"file">>}
                   \X ({[Env EXCEPT !.content = c] : c \in FilterFiles}
                         \cup {[Env EXCEPT !.content = EarlierFile, !.heapOk = FALSE]}))
    [] name = "save" ->
         Plain({<<"missing">>, <<>>, <<"-", "-">>})
           \cup ({<<"-">>} \X {[Env EXCEPT !.failAt = n] : n \in {0, 1}})
    [] name = "unload" -> Plain(NoArgs)
    [] name = "insert" -> Plain(StrArgs)
    [] name = "insert-sha" -> ShaArgs \X {[Env EXCEPT !.uninit = u] : u \in Uninits}
    [] name = "insert-file" -> StringFileInputs
    [] name = "query" -> Plain(StrArgs)
    [] name = "query-sha" -> ShaArgs \X {[Env EXCEPT !.uninit = u] : u \in Uninits}
    [] name = "query-file" -> StringFileInputs
    [] name = "falsepos" -> Plain({<<>>, <<T2>>, <<Tx>>, <<T1, T1>>})
    [] name = "sha" -> Plain({<<Str(1)>>, <<>>})
    [] name = "help" -> Plain({<<>>, <<"load">>, <<"lode">>})
    [] name = "lode" -> Plain({<<>>, <<T1>>})

\* The commands of a script that reads files of strings in every format
\* into the filter create 1 1 makes.
FormatScriptInputs(name) ==
  CASE name = "create" -> Plain({<<T1, T1>>})
    [] name = "insert-file" -> FormatInputs
    [] name = "query-file" -> FormatInputs

\* The names in a script: those of the table and one that is not there.
ScriptNames == {c.name : c \in commands} \cup {"lode"}
FormatScriptNames == {"create", "insert-file", "query-file"}

\* executor_exec_one(ex) on a command of the script: a name of names, a list
\* of arguments and an environment of inputs(name).
ExecOne(names, inputs(_)) ==
  /\ \E name \in names :
       \E in \in inputs(name) :
         \E r \in {executor_exec_one(ex, bf, name, in[1], in[2])} :
           /\ ex' = r.ex
           /\ bf' = r.bf
           /\ owned' = IF r.created THEN TRUE ELSE IF r.destroyed THEN FALSE ELSE owned
           /\ live' = live + r.mallocs - r.frees
           /\ stream' = IF r.wrote THEN r.out ELSE stream
           /\ saved' = IF r.wrote THEN [file |-> TRUE, bf |-> bf] ELSE saved
           /\ inserted' = IF r.created \/ r.destroyed THEN {}
                          ELSE inserted \cup {d \in DigestIds : Digest(d) \in r.shas}
           /\ last' = [op |-> "exec", name |-> name,
                       callback |-> r.callback, rejected |-> r.rejected,
                       abort |-> r.abort, returns |-> r.returns, st |-> r.st,
                       stdin |-> r.stdin, clobbered |-> (r.created /\ owned)]
  /\ UNCHANGED <<shiftWide, ndebug>>

ExecutorExecOne ==
  /\ CanExec
  /\ ExecOne(ScriptNames, ScriptInputs)

ExecutorExecOneFormats ==
  /\ CanExec
  /\ ExecOne(FormatScriptNames, FormatScriptInputs)

\* executor_exec_one at the end of the script: skip_to_command returns EOF.
ExecEof ==
  /\ CanExec
  /\ ex' = [ex EXCEPT !.status = EX_EOF]
  /\ last' = [op |-> "eof"]
  /\ UNCHANGED <<bf, owned, live, stream, shiftWide, ndebug, inserted, saved>>

\* executor_exec_one on a command one of whose tokens cannot be read:
\* ex_next_token fails, for want of memory or for a parse error.
ExecBadToken ==
  /\ CanExec
  /\ \E status \in {EX_E_FATAL, EX_E_RECOVERABLE} :
       /\ ex' = fail(ex, status)
       /\ last' = [op |-> "token", status |-> status]
  /\ UNCHANGED <<bf, owned, live, stream, shiftWide, ndebug, inserted, saved>>

\* executor_drain_line(ex), which the caller runs after a recoverable error.
ExecutorDrainLine ==
  /\ ~CliStopped
  /\ ex.status = EX_E_RECOVERABLE
  /\ ex' = [ex EXCEPT !.status = EX_OK]
  /\ last' = [op |-> "drain_line"]
  /\ UNCHANGED <<bf, owned, live, stream, shiftWide, ndebug, inserted, saved>>

NextStringFiles == ExecutorExecOneFormats \/ ExecutorDrainLine

SpecStringFiles == InitCli /\ [][NextStringFiles]_vars

NextCli == ExecutorExecOne \/ ExecEof \/ ExecBadToken \/ ExecutorDrainLine

SpecCli == InitCli /\ [][NextCli]_vars

\* ------------------------------------------------------------------------
\* Properties
\* ------------------------------------------------------------------------

\* The load that has just returned read the saved stream whole / read the
\* saved stream with some change made to it.
LoadedWhole ==
  last.op = "load" /\ last.how = [kind |-> "prefix", strict |-> FALSE]
LoadedCraft == last.op = "load" /\ last.how.kind = "craft"

\* ceil(2^b / 8)
VectorBytes(b) == (Pow2(b) + 7) \div 8

\* C1: no false negatives.  On any filter hibp_bf_new returned HIBP_OK for,
\* a query of a digest that was inserted since the filter was created
\* returns 1.
NoFalseNegatives ==
  (last.op = "query" /\ last.d \in inserted) => last.ret = 1

ChecksumIntegrity ==
  (last.op = "load" /\ last.how.kind = "flip") =>
    /\ last.st = (IF last.heapOk THEN HIBP_E_CHECKSUM ELSE HIBP_E_NOMEM)
    /\ ~owned
    /\ live = 0

\* A stream with a flipped bit was read to its end into an allocated buffer,
\* which was freed.
ChecksumIntegrityWitness ==
  /\ last.op = "load"
  /\ last.how.kind = "flip"
  /\ last.st = HIBP_E_CHECKSUM
  /\ last.mallocs = 1
  /\ last.frees = 1

\* C4: header integrity.  Loading a saved stream with one of its four magic
\* bytes replaced by another value returns HIBP_E_VERSION, whatever is done to
\* the parameter fields and the body behind them, and whether or not the heap
\* has memory.
HeaderIntegrity ==
  (LoadedCraft /\ last.how.magic) =>
    /\ last.st = HIBP_E_VERSION
    /\ last.consumed = 4
    /\ ~owned
    /\ live = 0

\* A stream with a replaced magic byte, a zero n_hash_functions field and a
\* changed body was rejected for its version.
HeaderIntegrityWitness ==
  /\ LoadedCraft
  /\ last.how.magic
  /\ last.how.k = "zero"
  /\ last.how.body
  /\ last.st = HIBP_E_VERSION

\* C5: parameter validation.  hibp_bf_new*, and load once it has decoded
\* n_hash_functions and log2_bits, return HIBP_E_INVAL when either is 0 and
\* HIBP_E_2BIG when n_hash_functions >= 1 and log2_bits > LOG2_BITS_MAX, and
\* produce no filter then.
ParameterValidation ==
  LET decoded == last.op = "new" \/ (last.op = "load" /\ last.consumed >= 13)
      k == IF last.op = "new" THEN last.k ELSE bf.n_hash_functions
      b == IF last.op = "new" THEN last.b ELSE bf.log2_bits
  IN  decoded =>
        /\ (k = 0 \/ b = 0) => (last.st = HIBP_E_INVAL /\ ~owned)
        /\ (k >= 1 /\ b > LOG2_BITS_MAX) => (last.st = HIBP_E_2BIG /\ ~owned)

\* C6: load validation order.  Of the checks of the magic header, of the
\* parameters and of the checksum, load reports the first that fails: a
\* replaced magic byte gives HIBP_E_VERSION whatever follows it; behind an
\* intact header a zero or oversized parameter gives a parameter error,
\* before any byte of the checksum is read or a buffer allocated, whatever
\* the body is; behind intact parameters a changed body gives
\* HIBP_E_CHECKSUM (HIBP_E_NOMEM without memory).
LoadValidationOrder ==
  LoadedCraft =>
    LET how == last.how
        params == how.k # "keep" \/ how.b # "keep"
    IN  /\ how.magic => last.st = HIBP_E_VERSION
        /\ (~how.magic /\ params) =>
             /\ last.st \in {HIBP_E_INVAL, HIBP_E_2BIG}
             /\ last.consumed <= 13
             /\ last.mallocs = 0
        /\ (~how.magic /\ ~params) =>
             last.st = (IF last.heapOk THEN HIBP_E_CHECKSUM ELSE HIBP_E_NOMEM)

\* C7: truncation.  Loading a strict prefix of a saved stream, the empty one
\* included, returns HIBP_E_IO (HIBP_E_NOMEM when the prefix reaches the body
\* and the buffer cannot be allocated), never HIBP_OK or HIBP_E_CHECKSUM, and
\* a buffer allocated by the call is freed.
Truncation ==
  (last.op = "load" /\ last.how.kind = "prefix" /\ last.how.strict) =>
    /\ last.st \in {HIBP_E_IO, HIBP_E_NOMEM}
    /\ last.heapOk => last.st = HIBP_E_IO
    /\ last.st = HIBP_E_NOMEM => last.consumed = SHA1_BYTES + 13
    /\ last.mallocs = last.frees
    /\ ~owned
    /\ live = 0

\* A stream that ends inside the body was read into an allocated buffer,
\* which was freed.
TruncationWitness ==
  /\ last.op = "load"
  /\ last.how.kind = "prefix"
  /\ last.how.strict
  /\ last.st = HIBP_E_IO
  /\ last.consumed > SHA1_BYTES + 13
  /\ last.mallocs = 1
  /\ last.frees = 1

\* C8: no allocation outstanding on error.  When hibp_bf_new* or load returns
\* another status than HIBP_OK, every block the call allocated has been freed
\* once; when it returns HIBP_OK the filter owns one block of
\* n_hash_functions * log2_bits + ceil(2^log2_bits / 8) bytes.
AllocationDiscipline ==
  (last.op \in {"new", "load"}) =>
    IF last.st = HIBP_OK
    THEN /\ owned
         /\ live = 1
         /\ last.mallocs = 1
         /\ last.frees = 0
         /\ Len(bf.buffer)
              = bf.n_hash_functions * bf.log2_bits + VectorBytes(bf.log2_bits)
    ELSE /\ ~owned
         /\ live = 0
         /\ last.mallocs = last.frees

\* C9: save layout.  With a putc that never fails save returns HIBP_OK and
\* has written 33 + k*b + ceil(2^b / 8) bytes: the magic bytes, k as 8
\* little-endian bytes (k is below 2^24 here), b as one byte, the SHA-1 of
\* the buffer (H then V), the buffer.
SaveLayout ==
  (last.op = "save" /\ last.failAt = 0) =>
    LET k == bf.n_hash_functions
        b == bf.log2_bits
    IN  /\ last.st = HIBP_OK
        /\ Len(stream) = 33 + k * b + VectorBytes(b)
        /\ stream = <<177, 0, 19, 55>>
                    \o <<k % 256, (k \div 256) % 256, (k \div 65536) % 256,
                         0, 0, 0, 0, 0>>
                    \o <<b>>
                    \o sha1(Len(bf.buffer), bf.buffer)
                    \o bf.buffer

\* C10: save write error.  When putc returns EOF on call n >= 1, save returns
\* HIBP_E_IO, n calls to putc have been made, the bytes written are the first
\* n - 1 bytes of what save writes when putc never fails, and the filter is
\* as it was.
SaveWriteError ==
  (last.op = "save" /\ last.failAt > 0) =>
    /\ last.st = HIBP_E_IO
    /\ last.calls = last.failAt
    /\ stream = SubSeq(hibp_bf_save_stream(saved.bf, 0, shiftWide).out,
                       1, last.failAt - 1)
    /\ bf = saved.bf
    /\ owned
    /\ live = 1

\* putc failed on the last byte of the body of a filter into which a digest
\* had been inserted.
SaveWriteErrorWitness ==
  /\ last.op = "save"
  /\ last.failAt = Len(bf.buffer) + SHA1_BYTES + 13
  /\ last.st = HIBP_E_IO
  /\ inserted # {}
  /\ bf.n_hash_functions = 2

\* The filter as it was created or loaded, before the inserts recorded in
\* inserted: the hash functions of bf with the vector that was loaded, or
\* with a vector of zeroes.
BaseFilter ==
  IF saved # NoSave /\ ~saved.file
  THEN saved.bf
  ELSE [bf EXCEPT !.buffer = SubSeq(bf.buffer, 1, bvector(bf)) \o Zeroes(vector_len(bf))]

\* The digests of the set S inserted into f once each, in descending order.
RECURSIVE InsertAll(_, _)
InsertAll(f, S) ==
  IF S = {} THEN f
  ELSE LET d == CHOOSE x \in S : \A y \in S : y <= x
       IN  InsertAll(hibp_bf_insert_sha1(f, Digest(d), 0, shiftWide, ndebug).bf, S \ {d})

\* C11: insert commutativity and idempotence.  Whatever the order of the
\* inserts made since the filter was created or loaded, and however often
\* each was repeated, the buffer is the one obtained by inserting each digest
\* of the set once, in one fixed order.
InsertCommutes ==
  (owned /\ ~Stopped) => bf = InsertAll(BaseFilter, inserted)

\* Two digests have been inserted, the smaller one last, into a filter of two
\* hash functions.
InsertCommutesWitness ==
  /\ owned
  /\ last.op = "insert"
  /\ last.d = 0
  /\ inserted = {0, 1}
  /\ bf.n_hash_functions = 2
  /\ bf.log2_bits = 2
  /\ bf # BaseFilter

\* C12: query is pure.  A query leaves n_hash_functions, log2_bits and the
\* buffer (H and V) as they are, and a query that follows a query of the same
\* digest, with nothing in between, returns the same value.
QueryPure ==
  [][(last'.op = "query") =>
       /\ bf' = bf
       /\ (last.op = "query" /\ last.d = last'.d) => last'.ret = last.ret]_vars

\* The values eval_nth_hash_function gives for the hash functions of f on the
\* digest d.
EvalSet(f, d) ==
  {eval_nth_hash_function(f, i, Digest(d), 0, shiftWide, TRUE) :
     i \in 0 .. (f.n_hash_functions - 1)}

\* Bit p of the vector of f.
VectorBit(f, p) == BitOf(f.buffer[bvector(f) + (p \div 8) + 1], p % 8)

\* C13: insert frame and monotonicity.  An insert of d returns, every bit
\* eval(H, i, d) lies in the ceil(2^b / 8) bytes of V and these are bytes of
\* the buffer, after the insert a bit of V is 1 exactly when it was 1 before
\* or is one of the bits eval(H, i, d), and n_hash_functions, log2_bits and
\* H are as before.
InsertFrame ==
  [][(last'.op = "insert") =>
       /\ ~last'.abort
       /\ ~last'.oob
       /\ vector_len(bf) = VectorBytes(bf.log2_bits)
       /\ \A e \in EvalSet(bf, last'.d) : e \div 8 < vector_len(bf)
       /\ bf'.n_hash_functions = bf.n_hash_functions
       /\ bf'.log2_bits = bf.log2_bits
       /\ Len(bf'.buffer) = Len(bf.buffer)
       /\ SubSeq(bf'.buffer, 1, bvector(bf)) = SubSeq(bf.buffer, 1, bvector(bf))
       /\ \A p \in 0 .. (8 * vector_len(bf) - 1) :
            VectorBit(bf', p) = 1
              <=> (VectorBit(bf, p) = 1 \/ p \in EvalSet(bf, last'.d))]_vars

\* C14: variant equivalence.  On every filter reached by inserts made
\* through any of the three insert functions, the three query functions
\* return the same value for each string, the three insert functions give the
\* same filter for each string, and the buffer is the one obtained by
\* inserting the digests of the strings with hibp_bf_insert_sha1.
VariantEquivalence ==
  (owned /\ ~Stopped) =>
    /\ \A d \in DigestIds, junk \in {0, 1} :
         LET s == Str(d)
         IN  /\ hibp_bf_query(bf, Len(s), s, junk, shiftWide, ndebug)
                  = hibp_bf_query_str(bf, s, junk, shiftWide, ndebug)
             /\ hibp_bf_query_str(bf, s, junk, shiftWide, ndebug)
                  = hibp_bf_query_sha1(bf, Digest(d), junk, shiftWide, ndebug)
             /\ hibp_bf_insert(bf, Len(s), s, junk, shiftWide, ndebug)
                  = hibp_bf_insert_str(bf, s, junk, shiftWide, ndebug)
             /\ hibp_bf_insert_str(bf, s, junk, shiftWide, ndebug)
                  = hibp_bf_insert_sha1(bf, Digest(d), junk, shiftWide, ndebug)
    /\ bf = InsertAll(BaseFilter, inserted)

\* The string "a" was inserted with hibp_bf_insert and then the empty string
\* with hibp_bf_insert_str into a filter of two hash functions.
VariantEquivalenceWitness ==
  /\ owned
  /\ last.op = "insert"
  /\ "via" \in DOMAIN last
  /\ last.via = "hibp_bf_insert_str"
  /\ last.d = 0
  /\ inserted = {0, 1}
  /\ bf.n_hash_functions = 2
  /\ bf.log2_bits = 2
  /\ bf # BaseFilter

\* C15: invariant I3.  Every byte of H of a filter that hibp_bf_new* or load
\* returned HIBP_OK for is below SHA1_BITS = 160, and so no later insert or
\* query fails assert(index < SHA1_BITS) or reads a bit outside the digest.
IndicesInDigest ==
  /\ owned => \A i \in 1 .. bvector(bf) : bf.buffer[i] < SHA1_BITS
  /\ (owned /\ last.op \in {"insert", "query"} /\ bf.log2_bits < SIZE_BITS)
       => ~last.abort

\* The i-th hash function of f: the log2_bits bytes of H from i * log2_bits.
HashSlice(f, i) == SubSeqFrom(f.buffer, i * f.log2_bits + 1, f.log2_bits)

PairwiseDistinctSlices(f) ==
  \A i, j \in 0 .. (f.n_hash_functions - 1) :
    i # j => HashSlice(f, i) # HashSlice(f, j)

\* C16: distinct hash functions.  For every n_hash_functions >= 1 and
\* log2_bits in [1, LOG2_BITS_MAX] and every prng within its contract, the
\* hash functions hibp_bf_new_prng generates are pairwise distinct.
HashFunctionsDistinct ==
  (owned /\ bf.n_hash_functions >= 1 /\ bf.log2_bits >= 1
         /\ bf.log2_bits <= LOG2_BITS_MAX)
    => PairwiseDistinctSlices(bf)

IsPermutation(permutation) ==
  {permutation[i] : i \in 0 .. (SHA1_BITS - 1)} = 0 .. (SHA1_BITS - 1)

\* C17: hash-family coverage.  After hibp_bf_new_prng the entries of H are
\* pairwise distinct when k * b <= 160; every aligned full block of 160
\* entries of H holds each of 0..159 once; the permutation array is a
\* permutation of 0..159 after every shuffle, and H is copied from it.
HashFamilyCoverage ==
  (owned /\ last.op = "new") =>
    LET hfs == bf.n_hash_functions * bf.log2_bits
        shuffles == (hfs + SHA1_BITS - 1) \div SHA1_BITS
    IN  /\ hfs <= SHA1_BITS
              => \A i, j \in 1 .. hfs : i # j => bf.buffer[i] # bf.buffer[j]
        /\ \A m \in 0 .. ((hfs \div SHA1_BITS) - 1) :
              {bf.buffer[SHA1_BITS * m + i] : i \in 1 .. SHA1_BITS}
                = 0 .. (SHA1_BITS - 1)
        /\ \A n \in 0 .. shuffles : IsPermutation(permutation_after(n, last.seed))
        /\ \A x \in 1 .. hfs :
              bf.buffer[x] = permutation_after(((x - 1) \div SHA1_BITS) + 1,
                                               last.seed)[(x - 1) % SHA1_BITS]

\* 321 hash functions of one bit: two full permutations and one more index,
\* made with the generator that moves every entry.
HashFamilyCoverageWitness ==
  /\ owned
  /\ last.op = "new"
  /\ last.seed = 1
  /\ bf.n_hash_functions = 321
  /\ bf.log2_bits = 1
  /\ SubSeq(bf.buffer, 1, SHA1_BITS) # SubSeq(bf.buffer, SHA1_BITS + 1, 2 * SHA1_BITS)

\* C18: overflow discipline.  For n_hash_functions >= 1 and log2_bits in
\* [1, LOG2_BITS_MAX], the width of size_t included, compute_buffer_size
\* returns HIBP_E_2BIG or sets buffer_size to exactly k * b + ceil(2^b / 8).
OverflowDiscipline ==
  (last.op = "compute_buffer_size" /\ last.k >= 1
     /\ last.b >= 1 /\ last.b <= LOG2_BITS_MAX)
    => \/ last.st = HIBP_E_2BIG
       \/ /\ last.st = HIBP_OK
          /\ last.size = last.k * last.b + ((Pow2(last.b) + 7) \div 8)

\* The hexadecimal digits and their values.
IsHexChar(c) == (48 <= c /\ c <= 57) \/ (65 <= c /\ c <= 70) \/ (97 <= c /\ c <= 102)
HexVal(c) == IF c <= 57 THEN c - 48 ELSE IF c <= 70 THEN c - 55 ELSE c - 87

\* C19: hibp_sha1_hex2bin.  When the first 40 characters of hex are
\* hexadecimal digits it returns HIBP_OK with
\* bin[i] = 16 * val(hex[2i]) + val(hex[2i + 1]) for i in 0..19; it returns
\* HIBP_E_INVAL exactly when one of the first 40 characters is not.
HexToBin ==
  last.op = "hex2bin" =>
    LET hex == last.hex
        allHex == \A i \in 1 .. 40 : i <= Len(hex) /\ IsHexChar(hex[i])
    IN  /\ (last.st = HIBP_E_INVAL) <=> ~allHex
        /\ allHex =>
              /\ last.st = HIBP_OK
              /\ \A i \in 0 .. 19 :
                    last.bin[i + 1] = 16 * HexVal(hex[2 * i + 1]) + HexVal(hex[2 * i + 2])

\* k(b) and size(b) of the claim: the number of hash functions for b, capped
\* at N_HASH_FUNCTIONS_MAX, and the buffer size of the filter (k(b), b).
KOfCandidate(count, b) == candidate_n_hash_functions(count, b, N_HASH_FUNCTIONS_MAX)
SizeOfCandidate(count, b) == KOfCandidate(count, b) * b + ((Pow2(b) + 7) \div 8)

\* The first candidate above 8 whose size exceeds max_memory.
FirstOver(count, max_memory) ==
  CHOOSE b \in 9 .. (CandidateCap + 1) :
    /\ SizeOfCandidate(count, b) > max_memory
    /\ \A c \in 9 .. (b - 1) : SizeOfCandidate(count, c) <= max_memory

\* C20: constrained_params selection.  With k(b) = ceil(2^b / count * ln 2)
\* capped at N_HASH_FUNCTIONS_MAX and size(b) = k(b) * b + ceil(2^b / 8),
\* the function returns (k(b*), b*), b* the last candidate before the first
\* candidate above 8 whose size exceeds max_memory (8 when even size(8)
\* exceeds it).
ConstrainedSelection ==
  (last.op = "constrained_params" /\ last.returns) =>
    LET selected == FirstOver(last.count, last.max_memory) - 1
    IN  /\ last.log2_bits = selected
        /\ last.n_hash_functions = KOfCandidate(last.count, selected)

\* C21: constrained_params termination.  For every count and max_memory,
\* max_memory = SIZE_MAX and count = 0 included, the loop over the candidates
\* is left (here: before the candidate CandidateCap + 1), and the log2_bits
\* returned is at most LOG2_BITS_MAX.
ConstrainedTerminates ==
  last.op = "constrained_params" =>
    /\ last.returns
    /\ last.log2_bits <= LOG2_BITS_MAX

\* The little-endian value of the low SizeBytes bytes of an 8-byte field.
LittleEndian(field) ==
  field[1] + 256 * field[2] + (IF SizeBytes >= 3 THEN 65536 * field[3] ELSE 0)

UpperBytesZero(field) == \A i \in (SizeBytes + 1) .. 8 : field[i] = 0

\* C22: k field decoding.  With a size_t of fewer than 8 bytes, load of a
\* stream with the right magic returns HIBP_E_2BIG when a byte of the
\* n_hash_functions field above sizeof(size_t) is not zero; otherwise
\* n_hash_functions is the little-endian value of the field, and the field
\* save writes for k decodes to k.
KFieldDecoding ==
  (last.op = "load" /\ last.how.kind = "kfield") =>
    /\ ~UpperBytesZero(last.field) => last.st = HIBP_E_2BIG
    /\ UpperBytesZero(last.field) =>
          /\ bf.n_hash_functions = LittleEndian(last.field)
          /\ last.consumed >= 12
          /\ \A k \in SizeKs :
                last.field = size_t_to_le_8_bytes(k) => bf.n_hash_functions = k

\* The field 255 255 0 ... 0, which save writes for k = SIZE_MAX, was decoded.
KFieldDecodingWitness ==
  /\ last.op = "load"
  /\ last.how.kind = "kfield"
  /\ UpperBytesZero(last.field)
  /\ last.field[1] = 255
  /\ last.field[2] = 255
  /\ bf.n_hash_functions >= 65535

\* The integer whose bit p, for p below n, is bit (H[i * b + p] mod 8) of
\* byte H[i * b + p] / 8 of the digest d, and whose other bits are 0.
RECURSIVE BitsOfDigest(_, _, _, _)
BitsOfDigest(f, i, d, n) ==
  IF n = 0 THEN 0
  ELSE LET q == f.buffer[i * f.log2_bits + n]
       IN  BitOf(Digest(d)[(q \div 8) + 1], q % 8) * Pow2(n - 1)
             + BitsOfDigest(f, i, d, n - 1)

\* C24: eval.  For every filter with log2_bits <= LOG2_BITS_MAX, every hash
\* function i and every digest, eval_nth_hash_function returns the integer
\* made of the digest's bits that H names, which is below 2^log2_bits, and
\* neither assert(value < 2^log2_bits), in eval or in query_sha1, fails.
EvalValue ==
  (owned /\ bf.log2_bits <= LOG2_BITS_MAX) =>
    /\ \A i \in 0 .. (bf.n_hash_functions - 1), d \in DigestIds :
          LET value == eval_nth_hash_function(bf, i, Digest(d), 0, shiftWide, ndebug)
          IN  /\ value = BitsOfDigest(bf, i, d, bf.log2_bits)
              /\ value < Pow2(bf.log2_bits)
    /\ last.op \in {"insert", "query"} => ~last.abort

\* C25: default prng range.  For every upper_bound >= 1, SIZE_MAX included,
\* and every value of the random source in [0, SIZE_MAX], the value
\* default_prng returns is in [0, upper_bound).
DefaultPrngRange ==
  (last.op = "default_prng" /\ last.returns) =>
    (0 <= last.value /\ last.value < last.upper_bound)

\* The entry of the command table for a name of the table.
CommandNamed(name) == CHOOSE c \in commands : c.name = name

\* C26: the filter guard of the command line tool.  In every step of
\* executor_exec_one: a command marked filter_unrequired (create,
\* create-auto, load) does not get its callback run while a filter is loaded,
\* a command marked filter_required does not get it run while none is, and
\* both are turned down with EX_E_RECOVERABLE; no assert on
\* filter_initialized in a callback fails; no new filter is put over a loaded
\* one; and filter_initialized is true exactly when the executor owns an
\* allocated buffer.
CliFilterGuard ==
  [][(last'.op = "exec") =>
       /\ (last'.name \in {c.name : c \in commands}) =>
            LET command == CommandNamed(last'.name)
                turned_down == last'.callback = "none" /\ ex'.status = EX_E_RECOVERABLE
            IN  /\ (command.filter_unrequired /\ ex.filter_initialized) => turned_down
                /\ (command.filter_required /\ ~ex.filter_initialized) => turned_down
       /\ last'.abort # "filter_initialized"
       /\ ~last'.clobbered
       /\ ex.filter_initialized = owned
       /\ ex'.filter_initialized = owned']_vars

\* A create, create-auto or load was turned down because a filter is loaded.
CliFilterGuardWitness ==
  /\ last.op = "exec"
  /\ last.name \in {"create", "create-auto", "load"}
  /\ last.rejected = "filter_unrequired"
  /\ last.callback = "none"
  /\ ex.filter_initialized
  /\ owned
  /\ ex.status = EX_E_RECOVERABLE


\* C27: standard input is consumed at most once.  A command that reopens
\* standard input for reading runs only while stdin_consumed is clear and
\* leaves it set, so that every later command given "-" as its input file is
\* turned down; when the executor was created with stdin_consumed set, no
\* command reopens standard input at all.
StdinConsumedOnce ==
  [][(last'.op = "exec" /\ last'.stdin > 0) =>
       /\ ~ex.stdin_consumed
       /\ ex'.stdin_consumed]_vars

\* C28: when hibp_bf_load_file fails inside the load command, the status it
\* returned is HIBP_E_IO, and the assertion status == HIBP_E_IO of exec_load
\* holds.
CliLoadFailureIsIo ==
  (last.op = "exec" /\ last.callback = "load" /\ last.st \notin {"none", HIBP_OK}) =>
    /\ last.st = HIBP_E_IO
    /\ last.abort = "none"

\* C29: a command that ends with the status EX_E_RECOVERABLE leaves
\* filter_initialized and the filter (k, b, H, V) as they were before it:
\* insert-sha with a malformed hash inserts nothing and create-auto with an
\* unparsable rate creates no filter.
CliFailedCommandChangesNothing ==
  [][(last'.op = "exec" /\ ex.status = EX_OK /\ ex'.status = EX_E_RECOVERABLE) =>
       /\ ex'.filter_initialized = ex.filter_initialized
       /\ owned' = owned
       /\ ex.filter_initialized => bf' = bf]_vars

\* C30: insert-file and query-file return for every finite file in each of
\* the formats strings, lines and shas: every round of the read loop consumes
\* at least one character, and neither assert(string->length > 0) nor
\* assert(line->length > 0) fails.
StringFileTerminates ==
  (last.op = "exec" /\ last.callback \in {"insert-file", "query-file"}) =>
    /\ last.returns
    /\ last.abort = "none"

====
